---- MODULE Spec2Model ----
(***************************************************************************)
(* Gomoku referee: GomokuBoard (gomoku_board.py), WinChecker               *)
(* (win_checker.py) and the GomokuGame / LLMPlayer driver                  *)
(* (gomoku_game.py, llm_player.py), and the replay of a saved game in     *)
(* GomokuVisualizer (gomoku_visualizer.py).                                *)
(*                                                                         *)
(* Python values are modelled as follows.                                  *)
(*   Optional[T]      None is <<>>, a value x is <<x>>                     *)
(*   (col, row)       <<col, row>> ; (col, row, stone) <<col, row, stone>> *)
(*   board[r][c]      a function 0..size-1 -> (0..size-1 -> cell)          *)
(*   message strings  the constant text of the message (the interpolated   *)
(*                    coordinate and model name are dropped)               *)
(***************************************************************************)
EXTENDS Integers, Sequences, FiniteSets, TLC

VARIABLES
    board,          \* GomokuBoard.board
    move_history,   \* GomokuBoard.move_history
    call,           \* the last call made on the board / checker, with its arguments
    ret,            \* what that call returned
    current_player, \* GomokuGame.current_player, by its stone_color
    game_over,      \* GomokuGame.game_over
    winner,         \* GomokuGame.winner
    moves,          \* GomokuGame.game_record["moves"]
    result,         \* GomokuGame.game_record["result"]
    pc,             \* where play_game stands
    move_count,     \* play_game: move_count
    max_moves,      \* play_game: max_moves
    attempt,        \* LLMPlayer.play_turn: attempt
    game_result,    \* play_game: the string returned
    game_data,      \* GomokuVisualizer.game_data
    current_move_index, \* GomokuVisualizer.current_move_index
    board_state,    \* GomokuVisualizer.board_state
    winning_positions   \* GomokuVisualizer.winning_positions

boardVars == <<board, move_history, call, ret>>

gameVars ==
    <<current_player, game_over, winner, moves, result, pc, move_count, max_moves,
      attempt, game_result>>

viewVars == <<game_data, current_move_index, board_state, winning_positions>>

vars ==
    <<board, move_history, call, ret, current_player, game_over, winner, moves,
      result, pc, move_count, max_moves, attempt, game_result, game_data,
      current_move_index, board_state, winning_positions>>

----------------------------------------------------------------------------
(* gomoku_board.py *)

BOARD_SIZE == 15

BOARD_COLUMNS ==
    <<"A", "B", "C", "D", "E", "F", "G", "H", "I", "J", "K", "L", "M", "N", "O">>

BOARD_COL_TO_INDEX ==
    [col \in {BOARD_COLUMNS[i] : i \in 1..Len(BOARD_COLUMNS)} |->
        (CHOOSE i \in 1..Len(BOARD_COLUMNS) : BOARD_COLUMNS[i] = col) - 1]

None == <<>>

Some(x) == <<x>>

\* GomokuBoard.__init__: the grid of '.' cells
EmptyBoard == [r \in 0..(BOARD_SIZE - 1) |-> [c \in 0..(BOARD_SIZE - 1) |-> "."]]

_validate_coordinates(col, row) ==
    IF col \notin DOMAIN BOARD_COL_TO_INDEX THEN FALSE
    ELSE IF row < 1 \/ row > BOARD_SIZE THEN FALSE
    ELSE TRUE

\* _coord_to_indices with row_idx = row - 1
_coord_to_indices_NoFlip(col, row) ==
    LET col_idx == BOARD_COL_TO_INDEX[col]
        row_idx == row - 1
    IN  <<row_idx, col_idx>>

\* returns <<row_idx, col_idx>>
_coord_to_indices(col, row) ==
    LET col_idx == BOARD_COL_TO_INDEX[col]
        row_idx == BOARD_SIZE - row
    IN  <<row_idx, col_idx>>

MsgInvalidCoordinates == "Invalid coordinates"

MsgOccupied == "is already occupied"

\* place_stone: print(f"Invalid stone type: {stone}. Must be 'B' or 'W'")
MsgInvalidStone == "Invalid stone type"

\* is_valid_move without the test of the cell (gomoku_board.py:53)
is_valid_move_IgnoreOccupied(b, col, row) ==
    IF ~_validate_coordinates(col, row)
    THEN [ok |-> FALSE, msg |-> MsgInvalidCoordinates]
    ELSE [ok |-> TRUE, msg |-> ""]

\* is_valid_move giving the out-of-bounds reason for an occupied cell
is_valid_move_OccupiedAsInvalid(b, col, row) ==
    IF ~_validate_coordinates(col, row)
    THEN [ok |-> FALSE, msg |-> MsgInvalidCoordinates]
    ELSE LET idx == _coord_to_indices(col, row)
         IN  IF b[idx[1]][idx[2]] # "."
             THEN [ok |-> FALSE, msg |-> MsgInvalidCoordinates]
             ELSE [ok |-> TRUE, msg |-> ""]

\* returns [ok, msg]
is_valid_move(b, col, row) ==
    IF ~_validate_coordinates(col, row)
    THEN [ok |-> FALSE, msg |-> MsgInvalidCoordinates]
    ELSE LET idx == _coord_to_indices(col, row)
         IN  IF b[idx[1]][idx[2]] # "."
             THEN [ok |-> FALSE, msg |-> MsgOccupied]
             ELSE [ok |-> TRUE, msg |-> ""]

\* place_stone that logs the move before it validates it
place_stone_LogBeforeValidate(b, h, col, row, stone) ==
    LET h1 == Append(h, <<col, row, stone>>)
    IN  IF ~is_valid_move(b, col, row).ok
        THEN [ok |-> FALSE, printed |-> is_valid_move(b, col, row).msg,
              board |-> b, move_history |-> h1]
        ELSE IF stone \notin {"B", "W"}
        THEN [ok |-> FALSE, printed |-> MsgInvalidStone, board |-> b, move_history |-> h1]
        ELSE LET idx == _coord_to_indices(col, row)
             IN  [ok |-> TRUE, printed |-> "",
                  board |-> [b EXCEPT ![idx[1]][idx[2]] = stone],
                  move_history |-> h1]

\* place_stone that sets the cell and forgets the log
place_stone_NoLog(b, h, col, row, stone) ==
    IF ~is_valid_move(b, col, row).ok
    THEN [ok |-> FALSE, printed |-> is_valid_move(b, col, row).msg,
          board |-> b, move_history |-> h]
    ELSE IF stone \notin {"B", "W"}
    THEN [ok |-> FALSE, printed |-> MsgInvalidStone, board |-> b, move_history |-> h]
    ELSE LET idx == _coord_to_indices(col, row)
         IN  [ok |-> TRUE, printed |-> "",
              board |-> [b EXCEPT ![idx[1]][idx[2]] = stone],
              move_history |-> h]

\* place_stone that inserts the record at the front of the log
place_stone_Prepend(b, h, col, row, stone) ==
    IF ~is_valid_move(b, col, row).ok
    THEN [ok |-> FALSE, printed |-> is_valid_move(b, col, row).msg,
          board |-> b, move_history |-> h]
    ELSE IF stone \notin {"B", "W"}
    THEN [ok |-> FALSE, printed |-> MsgInvalidStone, board |-> b, move_history |-> h]
    ELSE LET idx == _coord_to_indices(col, row)
         IN  [ok |-> TRUE, printed |-> "",
              board |-> [b EXCEPT ![idx[1]][idx[2]] = stone],
              move_history |-> <<<<col, row, stone>>>> \o h]

\* place_stone without the test of the stone type
place_stone_AnyStone(b, h, col, row, stone) ==
    IF ~is_valid_move(b, col, row).ok
    THEN [ok |-> FALSE, printed |-> is_valid_move(b, col, row).msg,
          board |-> b, move_history |-> h]
    ELSE LET idx == _coord_to_indices(col, row)
         IN  [ok |-> TRUE, printed |-> "",
              board |-> [b EXCEPT ![idx[1]][idx[2]] = stone],
              move_history |-> Append(h, <<col, row, stone>>)]

\* returns [ok, printed, board, move_history]: the return value, the reason
\* printed and logged on failure, and the object after the call
place_stone(b, h, col, row, stone) ==
    IF ~is_valid_move(b, col, row).ok
    THEN [ok |-> FALSE, printed |-> is_valid_move(b, col, row).msg,
          board |-> b, move_history |-> h]
    ELSE IF stone \notin {"B", "W"}
    THEN [ok |-> FALSE, printed |-> MsgInvalidStone, board |-> b, move_history |-> h]
    ELSE LET idx == _coord_to_indices(col, row)
         IN  [ok |-> TRUE, printed |-> "",
              board |-> [b EXCEPT ![idx[1]][idx[2]] = stone],
              move_history |-> Append(h, <<col, row, stone>>)]

\* get_stone reading the row row - 1 instead of size - row
get_stone_NoFlip(b, col, row) ==
    IF ~_validate_coordinates(col, row) THEN None
    ELSE LET idx == _coord_to_indices(col, row)
             stone == b[row - 1][idx[2]]
         IN  IF stone # "." THEN Some(stone) ELSE None

\* get_stone returning the cell as it is stored
get_stone_RawCell(b, col, row) ==
    IF ~_validate_coordinates(col, row) THEN None
    ELSE LET idx == _coord_to_indices(col, row)
             stone == b[idx[1]][idx[2]]
         IN  Some(stone)

get_stone(b, col, row) ==
    IF ~_validate_coordinates(col, row) THEN None
    ELSE LET idx == _coord_to_indices(col, row)
             stone == b[idx[1]][idx[2]]
         IN  IF stone # "." THEN Some(stone) ELSE None

\* Text is a sequence of one-character strings, and display returns the
\* sequence of the lines that it joins with "\n".
Digit(n) == <<"0", "1", "2", "3", "4", "5", "6", "7", "8", "9">>[n + 1]

\* f"{row_num:2d}"
TwoDigits(n) ==
    IF n < 10 THEN <<" ", Digit(n)>> ELSE <<Digit(n \div 10), Digit(n % 10)>>

\* str.rstrip()
rstrip(text) ==
    LET keep == {i \in 1..Len(text) : text[i] # " "}
    IN  IF keep = {} THEN <<>>
        ELSE SubSeq(text, 1, CHOOSE i \in keep : \A j \in keep : j <= i)

\* " ".join(items)
JoinWithSpaces(items) ==
    [i \in 1..(2 * Len(items) - 1) |->
        IF i % 2 = 1 THEN items[(i + 1) \div 2] ELSE " "]

\* display listing the rows with range(1, size + 1)
display_BottomUp(b) ==
    [n \in 1..(BOARD_SIZE + 1) |->
        IF n <= BOARD_SIZE
        THEN LET row_num == n
                 row_idx == BOARD_SIZE - row_num
                 line == TwoDigits(row_num) \o <<" ">>
                         \o [i \in 1..(2 * BOARD_SIZE) |->
                                IF i % 2 = 1 THEN b[row_idx][(i - 1) \div 2] ELSE " "]
             IN  rstrip(line)
        ELSE <<" ", " ", " ">> \o JoinWithSpaces(BOARD_COLUMNS)]

\* the lines of display(): one per row_num in range(size, 0, -1), then the header
display(b) ==
    [n \in 1..(BOARD_SIZE + 1) |->
        IF n <= BOARD_SIZE
        THEN LET row_num == BOARD_SIZE + 1 - n
                 row_idx == BOARD_SIZE - row_num
                 line == TwoDigits(row_num) \o <<" ">>
                         \o [i \in 1..(2 * BOARD_SIZE) |->
                                IF i % 2 = 1 THEN b[row_idx][(i - 1) \div 2] ELSE " "]
             IN  rstrip(line)
        ELSE <<" ", " ", " ">> \o JoinWithSpaces(BOARD_COLUMNS)]

\* get_last_move returning move_history[0]
get_last_move_First(h) == IF h # <<>> THEN Some(h[1]) ELSE None

get_last_move(h) == IF h # <<>> THEN Some(h[Len(h)]) ELSE None

----------------------------------------------------------------------------
(* win_checker.py *)

\* <<dr, dc>>: horizontal, vertical, diagonal \, diagonal /
directions == << <<0, 1>>, <<1, 0>>, <<1, 1>>, <<1, -1>> >>

InBoard(row, col) ==
    0 <= row /\ row < BOARD_SIZE /\ 0 <= col /\ col < BOARD_SIZE

RECURSIVE CountFrom_AnyStone(_, _, _, _, _, _)
\* the loop of _count_consecutive counting every cell that holds a stone
CountFrom_AnyStone(b, row, col, dr, dc, stone) ==
    IF InBoard(row, col) /\ b[row][col] # "."
    THEN 1 + CountFrom_AnyStone(b, row + dr, col + dc, dr, dc, stone)
    ELSE 0

RECURSIVE CountFrom(_, _, _, _, _, _)
\* the while loop of _count_consecutive, entered at (row, col)
CountFrom(b, row, col, dr, dc, stone) ==
    IF InBoard(row, col) /\ b[row][col] = stone
    THEN 1 + CountFrom(b, row + dr, col + dc, dr, dc, stone)
    ELSE 0

_count_consecutive(b, start_row, start_col, dr, dc, stone) ==
    CountFrom(b, start_row + dr, start_col + dc, dr, dc, stone)

\* the count without the negative direction
DirCount_OneSided(b, row_idx, col_idx, d, stone) ==
    1 + _count_consecutive(b, row_idx, col_idx, d[1], d[2], stone)

\* count of one iteration of the loop over directions in check_win
DirCount(b, row_idx, col_idx, d, stone) ==
    1 + _count_consecutive(b, row_idx, col_idx, d[1], d[2], stone)
      + _count_consecutive(b, row_idx, col_idx, -d[1], -d[2], stone)

\* check_win returning True where the coordinate is not valid
check_win_FailOpen(b, col, row, stone) ==
    IF ~_validate_coordinates(col, row) THEN TRUE
    ELSE LET idx == _coord_to_indices(col, row)
         IN  \E i \in 1..Len(directions) :
                 DirCount(b, idx[1], idx[2], directions[i], stone) >= 5

\* check_win with the threshold count > 5
check_win_MoreThanFive(b, col, row, stone) ==
    IF ~_validate_coordinates(col, row) THEN FALSE
    ELSE LET idx == _coord_to_indices(col, row)
         IN  \E i \in 1..Len(directions) :
                 DirCount(b, idx[1], idx[2], directions[i], stone) > 5

\* check_win with the threshold count >= 4
check_win_AtLeastFour(b, col, row, stone) ==
    IF ~_validate_coordinates(col, row) THEN FALSE
    ELSE LET idx == _coord_to_indices(col, row)
         IN  \E i \in 1..Len(directions) :
                 DirCount(b, idx[1], idx[2], directions[i], stone) >= 4

check_win(b, col, row, stone) ==
    IF ~_validate_coordinates(col, row) THEN FALSE
    ELSE LET idx == _coord_to_indices(col, row)
         IN  \E i \in 1..Len(directions) :
                 DirCount(b, idx[1], idx[2], directions[i], stone) >= 5

\* is_board_full returning after the first row
is_board_full_FirstRowOnly(b) ==
    ~\E c \in DOMAIN b[0] : b[0][c] = "."

is_board_full(b) ==
    ~\E r \in DOMAIN b : \E c \in DOMAIN b[r] : b[r][c] = "."

RECURSIVE CollectFrom_AnyStone(_, _, _, _, _, _)
\* the loop of _collect_line without the test of the cell's owner
CollectFrom_AnyStone(b, row, col, dr, dc, stone) ==
    IF InBoard(row, col)
    THEN LET board_col == BOARD_COLUMNS[col + 1]
             board_row == BOARD_SIZE - row
         IN  <<<<board_col, board_row>>>>
                 \o CollectFrom_AnyStone(b, row + dr, col + dc, dr, dc, stone)
    ELSE <<>>

RECURSIVE CollectFrom(_, _, _, _, _, _)
\* the while loop of _collect_line, entered at (row, col): the positions appended
CollectFrom(b, row, col, dr, dc, stone) ==
    IF InBoard(row, col) /\ b[row][col] = stone
    THEN LET board_col == BOARD_COLUMNS[col + 1]
             board_row == BOARD_SIZE - row
         IN  <<<<board_col, board_row>>>>
                 \o CollectFrom(b, row + dr, col + dc, dr, dc, stone)
    ELSE <<>>

\* line_positions after the call
_collect_line(b, start_row, start_col, dr, dc, stone, line_positions) ==
    line_positions \o CollectFrom(b, start_row + dr, start_col + dc, dr, dc, stone)

\* the line without the negative direction
DirLine_PositiveOnly(b, col, row, d, stone) ==
    LET idx == _coord_to_indices(col, row)
        l0 == <<<<col, row>>>>
    IN  _collect_line(b, idx[1], idx[2], d[1], d[2], stone, l0)

\* line_positions of one iteration of the loop over directions in get_winning_line
DirLine(b, col, row, d, stone) ==
    LET idx == _coord_to_indices(col, row)
        l0 == <<<<col, row>>>>
        l1 == _collect_line(b, idx[1], idx[2], d[1], d[2], stone, l0)
    IN  _collect_line(b, idx[1], idx[2], -d[1], -d[2], stone, l1)

RECURSIVE WinningLineFrom_NoTruncate(_, _, _, _, _)
\* the loop of get_winning_line returning the whole line
WinningLineFrom_NoTruncate(b, col, row, stone, i) ==
    IF i > Len(directions) THEN None
    ELSE LET line_positions == DirLine(b, col, row, directions[i], stone)
         IN  IF Len(line_positions) >= 5
             THEN Some(line_positions)
             ELSE WinningLineFrom_NoTruncate(b, col, row, stone, i + 1)

RECURSIVE WinningLineFrom_LastFirst(_, _, _, _, _)
\* the loop of get_winning_line going through the directions backwards
WinningLineFrom_LastFirst(b, col, row, stone, i) ==
    IF i > Len(directions) THEN None
    ELSE LET line_positions ==
                 DirLine(b, col, row, directions[Len(directions) + 1 - i], stone)
         IN  IF Len(line_positions) >= 5
             THEN Some(SubSeq(line_positions, 1, 5))
             ELSE WinningLineFrom_LastFirst(b, col, row, stone, i + 1)

RECURSIVE WinningLineFrom(_, _, _, _, _)
\* the loop over directions in get_winning_line, from the i-th direction on
WinningLineFrom(b, col, row, stone, i) ==
    IF i > Len(directions) THEN None
    ELSE LET line_positions == DirLine(b, col, row, directions[i], stone)
         IN  IF Len(line_positions) >= 5
             THEN Some(SubSeq(line_positions, 1, 5))
             ELSE WinningLineFrom(b, col, row, stone, i + 1)

get_winning_line(b, col, row, stone) ==
    IF ~check_win(b, col, row, stone) THEN None
    ELSE WinningLineFrom(b, col, row, stone, 1)

----------------------------------------------------------------------------
(* llm_player.py and gomoku_game.py.  A game g is the record of the fields    *)
(* of GomokuGame, of its board and of the locals of play_game.  The model     *)
(* names, the display names, the "coordinate" strings, the printing, the      *)
(* sleeps and the JSON file are left out.                                     *)

\* gomoku_game.py:243, self.current_player.play_turn(self.board, max_retries=3)
max_retries == 3

\* gomoku_game.py:341, play_game(self, max_moves: int = 225)
DefaultMaxMoves == 225

ColorName(stone) == IF stone = "B" THEN "Black" ELSE "White"

\* f"{winner_name} wins!"
WinsText(stone) == IF stone = "B" THEN "Black wins!" ELSE "White wins!"

MsgPlays == "plays"

MsgInvalidMove == "Invalid move"

MsgFailedToPlace == "Failed to place stone"

MsgNoMove == "Failed to get move from LLM"

MsgLoses == "loses - Failed to make valid move"

\* GomokuGame.__init__
NewGame ==
    [board |-> EmptyBoard,
     move_history |-> <<>>,
     current_player |-> "B",
     game_over |-> FALSE,
     winner |-> None,
     moves |-> <<>>,
     result |-> [winner |-> None, winner_color |-> None, total_moves |-> 0,
                 winning_line |-> None, game_end_reason |-> None],
     pc |-> "idle",
     move_count |-> 0,
     max_moves |-> 0,
     attempt |-> 0,
     game_result |-> None]

\* What get_move returns: None ("none"), a (column, row) pair of a letter and a
\* number ("coords"), or a pair whose row is not a number ("badrow"), as the
\* JSON arguments of the tool call are not checked.
NoMove == [kind |-> "none", col |-> "", row |-> 0]

Move(col, row) == [kind |-> "coords", col |-> col, row |-> row]

BadRowMove(col) == [kind |-> "badrow", col |-> col, row |-> 0]

\* validate_and_execute_move handing the colour's name to place_stone
validate_and_execute_move_ColourName(b, h, stone_color, move) ==
    IF move.kind = "badrow"
    THEN [raised |-> TRUE, success |-> FALSE, message |-> "",
          board |-> b, move_history |-> h]
    ELSE LET current_stone == get_stone(b, move.col, move.row)
             valid == is_valid_move(b, move.col, move.row)
         IN  IF ~valid.ok
             THEN [raised |-> FALSE, success |-> FALSE, message |-> MsgInvalidMove,
                   board |-> b, move_history |-> h]
             ELSE LET r == place_stone(b, h, move.col, move.row,
                                       ColorName(stone_color))
                  IN  IF r.ok
                      THEN [raised |-> FALSE, success |-> TRUE, message |-> MsgPlays,
                            board |-> r.board, move_history |-> r.move_history]
                      ELSE [raised |-> FALSE, success |-> FALSE,
                            message |-> MsgFailedToPlace,
                            board |-> r.board, move_history |-> r.move_history]

\* returns [raised, success, message, board, move_history]
validate_and_execute_move(b, h, stone_color, move) ==
    IF move.kind = "badrow"
    THEN \* get_stone -> _validate_coordinates: row < 1 raises TypeError
         [raised |-> TRUE, success |-> FALSE, message |-> "",
          board |-> b, move_history |-> h]
    ELSE LET current_stone == get_stone(b, move.col, move.row)
             valid == is_valid_move(b, move.col, move.row)
         IN  IF ~valid.ok
             THEN [raised |-> FALSE, success |-> FALSE, message |-> MsgInvalidMove,
                   board |-> b, move_history |-> h]
             ELSE LET r == place_stone(b, h, move.col, move.row, stone_color)
                  IN  IF r.ok
                      THEN [raised |-> FALSE, success |-> TRUE, message |-> MsgPlays,
                            board |-> r.board, move_history |-> r.move_history]
                      ELSE [raised |-> FALSE, success |-> FALSE,
                            message |-> MsgFailedToPlace,
                            board |-> r.board, move_history |-> r.move_history]

\* the loop of LLMPlayer.play_turn running over range(max_retries) only
llm_play_turn_attempt_OneAttemptLess(b, h, stone_color, att, move) ==
    LET last == (att >= max_retries - 1)
    IN  IF move.kind = "none"
        THEN [returns |-> last, raised |-> FALSE, success |-> FALSE,
              message |-> MsgNoMove, move_coords |-> None,
              board |-> b, move_history |-> h]
        ELSE LET v == validate_and_execute_move(b, h, stone_color, move)
             IN  IF v.raised
                 THEN [returns |-> TRUE, raised |-> TRUE, success |-> FALSE,
                       message |-> "", move_coords |-> None,
                       board |-> v.board, move_history |-> v.move_history]
                 ELSE IF v.success
                 THEN [returns |-> TRUE, raised |-> FALSE, success |-> TRUE,
                       message |-> v.message,
                       move_coords |-> Some(<<move.col, move.row>>),
                       board |-> v.board, move_history |-> v.move_history]
                 ELSE [returns |-> last, raised |-> FALSE, success |-> FALSE,
                       message |-> IF last THEN MsgLoses ELSE v.message,
                       move_coords |-> None,
                       board |-> v.board, move_history |-> v.move_history]

\* the loop of LLMPlayer.play_turn running over range(max_retries + 2)
llm_play_turn_attempt_OneAttemptMore(b, h, stone_color, att, move) ==
    LET last == (att = max_retries + 1)
    IN  IF move.kind = "none"
        THEN [returns |-> last, raised |-> FALSE, success |-> FALSE,
              message |-> MsgNoMove, move_coords |-> None,
              board |-> b, move_history |-> h]
        ELSE LET v == validate_and_execute_move(b, h, stone_color, move)
             IN  IF v.raised
                 THEN [returns |-> TRUE, raised |-> TRUE, success |-> FALSE,
                       message |-> "", move_coords |-> None,
                       board |-> v.board, move_history |-> v.move_history]
                 ELSE IF v.success
                 THEN [returns |-> TRUE, raised |-> FALSE, success |-> TRUE,
                       message |-> v.message,
                       move_coords |-> Some(<<move.col, move.row>>),
                       board |-> v.board, move_history |-> v.move_history]
                 ELSE [returns |-> last, raised |-> FALSE, success |-> FALSE,
                       message |-> IF last THEN MsgLoses ELSE v.message,
                       move_coords |-> None,
                       board |-> v.board, move_history |-> v.move_history]

\* One iteration of the loop of LLMPlayer.play_turn, get_move having returned
\* move.  returns [returns, raised, success, message, move_coords, board,
\* move_history]: returns is false when the loop goes on to the next attempt.
llm_play_turn_attempt(b, h, stone_color, att, move) ==
    IF move.kind = "none"
    THEN [returns |-> (att = max_retries), raised |-> FALSE, success |-> FALSE,
          message |-> MsgNoMove, move_coords |-> None,
          board |-> b, move_history |-> h]
    ELSE LET v == validate_and_execute_move(b, h, stone_color, move)
         IN  IF v.raised
             THEN [returns |-> TRUE, raised |-> TRUE, success |-> FALSE,
                   message |-> "", move_coords |-> None,
                   board |-> v.board, move_history |-> v.move_history]
             ELSE IF v.success
             THEN [returns |-> TRUE, raised |-> FALSE, success |-> TRUE,
                   message |-> v.message,
                   move_coords |-> Some(<<move.col, move.row>>),
                   board |-> v.board, move_history |-> v.move_history]
             ELSE [returns |-> (att = max_retries), raised |-> FALSE,
                   success |-> FALSE,
                   message |-> IF att = max_retries THEN MsgLoses ELSE v.message,
                   move_coords |-> None,
                   board |-> v.board, move_history |-> v.move_history]

\* switch_player always handing the turn to White
switch_player_AlwaysWhite(g) ==
    [g EXCEPT !.current_player = "W"]

switch_player(g) ==
    [g EXCEPT !.current_player = IF g.current_player = "B" THEN "W" ELSE "B"]

\* record_move writing the colour of the other player
record_move_OtherPlayer(g, column, row, player_color) ==
    LET move_number == Len(g.moves) + 1
        move_record == [move_number |-> move_number,
                        player |-> IF player_color = "B" THEN "W" ELSE "B",
                        column |-> column, row |-> row]
    IN  [g EXCEPT !.moves = Append(g.moves, move_record)]

\* record_move numbering the moves from 0
record_move_NumberFromZero(g, column, row, player_color) ==
    LET move_number == Len(g.moves)
        move_record == [move_number |-> move_number, player |-> player_color,
                        column |-> column, row |-> row]
    IN  [g EXCEPT !.moves = Append(g.moves, move_record)]

record_move(g, column, row, player_color) ==
    LET move_number == Len(g.moves) + 1
        move_record == [move_number |-> move_number, player |-> player_color,
                        column |-> column, row |-> row]
    IN  [g EXCEPT !.moves = Append(g.moves, move_record)]

\* check_game_end testing is_board_full before check_win
check_game_end_FullFirst(g, last_move) ==
    LET column == last_move[1][1]
        row == last_move[1][2]
        stone == g.current_player
    IN  IF is_board_full(g.board)
        THEN [ended |-> TRUE,
              g |-> [g EXCEPT
                       !.game_over = TRUE,
                       !.result =
                           [g.result EXCEPT
                              !.winner = Some("Draw"),
                              !.winner_color = None,
                              !.total_moves = Len(g.moves),
                              !.game_end_reason = Some("Board is full - Draw")]]]
        ELSE IF last_move # None /\ check_win(g.board, column, row, stone)
        THEN LET winning_line == get_winning_line(g.board, column, row, stone)
                 color_name == ColorName(stone)
             IN  [ended |-> TRUE,
                  g |-> [g EXCEPT
                           !.winner = Some(stone),
                           !.game_over = TRUE,
                           !.result =
                               [winner |-> Some(color_name),
                                winner_color |-> Some(stone),
                                total_moves |-> Len(g.moves),
                                winning_line |->
                                    IF winning_line # None THEN winning_line
                                    ELSE g.result.winning_line,
                                game_end_reason |-> Some("achieved 5 in a row")]]]
        ELSE [ended |-> FALSE, g |-> g]

\* check_game_end recording the player who is to move next as the winner
check_game_end_WinnerNext(g, last_move) ==
    LET column == last_move[1][1]
        row == last_move[1][2]
        stone == g.current_player
        next_stone == IF stone = "B" THEN "W" ELSE "B"
    IN  IF last_move # None /\ check_win(g.board, column, row, stone)
        THEN LET winning_line == get_winning_line(g.board, column, row, stone)
                 color_name == ColorName(next_stone)
             IN  [ended |-> TRUE,
                  g |-> [g EXCEPT
                           !.winner = Some(next_stone),
                           !.game_over = TRUE,
                           !.result =
                               [winner |-> Some(color_name),
                                winner_color |-> Some(next_stone),
                                total_moves |-> Len(g.moves),
                                winning_line |->
                                    IF winning_line # None THEN winning_line
                                    ELSE g.result.winning_line,
                                game_end_reason |-> Some("achieved 5 in a row")]]]
        ELSE IF is_board_full(g.board)
        THEN [ended |-> TRUE,
              g |-> [g EXCEPT
                       !.game_over = TRUE,
                       !.result =
                           [g.result EXCEPT
                              !.winner = Some("Draw"),
                              !.winner_color = None,
                              !.total_moves = Len(g.moves),
                              !.game_end_reason = Some("Board is full - Draw")]]]
        ELSE [ended |-> FALSE, g |-> g]

\* returns [ended, g]
check_game_end(g, last_move) ==
    LET column == last_move[1][1]
        row == last_move[1][2]
        stone == g.current_player
    IN  IF last_move # None /\ check_win(g.board, column, row, stone)
        THEN LET winning_line == get_winning_line(g.board, column, row, stone)
                 color_name == ColorName(stone)
             IN  [ended |-> TRUE,
                  g |-> [g EXCEPT
                           !.winner = Some(stone),
                           !.game_over = TRUE,
                           !.result =
                               [winner |-> Some(color_name),
                                winner_color |-> Some(stone),
                                total_moves |-> Len(g.moves),
                                winning_line |->
                                    IF winning_line # None THEN winning_line
                                    ELSE g.result.winning_line,
                                game_end_reason |-> Some("achieved 5 in a row")]]]
        ELSE IF is_board_full(g.board)
        THEN [ended |-> TRUE,
              g |-> [g EXCEPT
                       !.game_over = TRUE,
                       !.result =
                           [g.result EXCEPT
                              !.winner = Some("Draw"),
                              !.winner_color = None,
                              !.total_moves = Len(g.moves),
                              !.game_end_reason = Some("Board is full - Draw")]]]
        ELSE [ended |-> FALSE, g |-> g]

\* the forfeit branch naming the player who failed as the winner
game_play_turn_end_ForfeitWinnerSelf(g, t) ==
    LET g0 == [g EXCEPT !.board = t.board, !.move_history = t.move_history]
    IN  IF t.raised
        THEN [ok |-> FALSE,
              g |-> [g0 EXCEPT
                       !.game_over = TRUE,
                       !.result =
                           [g0.result EXCEPT
                              !.winner = Some("Error"),
                              !.winner_color = None,
                              !.total_moves = Len(g0.moves),
                              !.game_end_reason = Some("Game ended due to exception")]]]
        ELSE IF t.success
        THEN LET g1 == IF t.move_coords # None
                       THEN record_move(g0, t.move_coords[1][1], t.move_coords[1][2],
                                        g0.current_player)
                       ELSE g0
                 e == check_game_end(g1, t.move_coords)
             IN  IF e.ended THEN [ok |-> TRUE, g |-> e.g]
                 ELSE [ok |-> TRUE, g |-> switch_player(e.g)]
        ELSE IF t.message = MsgLoses
        THEN LET w == g0.current_player
                 winner_name == IF w = "W" THEN "White" ELSE "Black"
             IN  [ok |-> TRUE,
                  g |-> [g0 EXCEPT
                           !.game_over = TRUE,
                           !.winner = Some(w),
                           !.result =
                               [g0.result EXCEPT
                                  !.winner = Some(winner_name),
                                  !.winner_color = Some(w),
                                  !.total_moves = Len(g0.moves),
                                  !.game_end_reason = Some("forfeited")]]]
        ELSE [ok |-> FALSE,
              g |-> [g0 EXCEPT
                       !.game_over = TRUE,
                       !.result =
                           [g0.result EXCEPT
                              !.winner = Some("Error"),
                              !.winner_color = None,
                              !.total_moves = Len(g0.moves),
                              !.game_end_reason = Some("Game ended due to error")]]]

\* GomokuGame.play_turn after self.current_player.play_turn has returned t (or
\* raised).  returns [ok, g]: ok is what play_turn returns.
game_play_turn_end(g, t) ==
    LET g0 == [g EXCEPT !.board = t.board, !.move_history = t.move_history]
    IN  IF t.raised
        THEN [ok |-> FALSE,
              g |-> [g0 EXCEPT
                       !.game_over = TRUE,
                       !.result =
                           [g0.result EXCEPT
                              !.winner = Some("Error"),
                              !.winner_color = None,
                              !.total_moves = Len(g0.moves),
                              !.game_end_reason = Some("Game ended due to exception")]]]
        ELSE IF t.success
        THEN LET g1 == IF t.move_coords # None
                       THEN record_move(g0, t.move_coords[1][1], t.move_coords[1][2],
                                        g0.current_player)
                       ELSE g0
                 e == check_game_end(g1, t.move_coords)
             IN  IF e.ended THEN [ok |-> TRUE, g |-> e.g]
                 ELSE [ok |-> TRUE, g |-> switch_player(e.g)]
        ELSE IF t.message = MsgLoses
        THEN LET w == IF g0.current_player = "B" THEN "W" ELSE "B"
                 winner_name == IF w = "W" THEN "White" ELSE "Black"
             IN  [ok |-> TRUE,
                  g |-> [g0 EXCEPT
                           !.game_over = TRUE,
                           !.winner = Some(w),
                           !.result =
                               [g0.result EXCEPT
                                  !.winner = Some(winner_name),
                                  !.winner_color = Some(w),
                                  !.total_moves = Len(g0.moves),
                                  !.game_end_reason = Some("forfeited")]]]
        ELSE [ok |-> FALSE,
              g |-> [g0 EXCEPT
                       !.game_over = TRUE,
                       !.result =
                           [g0.result EXCEPT
                              !.winner = Some("Error"),
                              !.winner_color = None,
                              !.total_moves = Len(g0.moves),
                              !.game_end_reason = Some("Game ended due to error")]]]

\* play_game up to its loop
play_game_start(g, m) ==
    [g EXCEPT !.pc = "loop", !.move_count = 0, !.max_moves = m]

\* the loop test without "not self.game_over"
play_game_loop_test_IgnoreGameOver(g) ==
    g.move_count < g.max_moves

\* the test of the while loop of play_game
play_game_loop_test(g) ==
    ~g.game_over /\ g.move_count < g.max_moves

\* the loop test and, when it holds, the entry into play_turn up to get_move
play_game_loop(g) ==
    IF play_game_loop_test(g)
    THEN [g EXCEPT !.pc = "turn", !.attempt = 0]
    ELSE [g EXCEPT !.pc = "final"]

\* the retry loop of LLMPlayer.play_turn written as a while loop that does not
\* advance attempt
play_game_attempt_SameAttempt(g, move) ==
    LET t == llm_play_turn_attempt(g.board, g.move_history, g.current_player,
                                   g.attempt, move)
    IN  IF ~t.returns
        THEN [g EXCEPT !.board = t.board, !.move_history = t.move_history]
        ELSE LET e == game_play_turn_end(g, t)
             IN  IF ~e.ok
                 THEN [e.g EXCEPT !.pc = "final"]
                 ELSE [e.g EXCEPT !.pc = "loop", !.move_count = g.move_count + 1]

\* get_move has returned move: the rest of this attempt; when the turn ends,
\* the rest of GomokuGame.play_turn and of the loop body of play_game
play_game_attempt(g, move) ==
    LET t == llm_play_turn_attempt(g.board, g.move_history, g.current_player,
                                   g.attempt, move)
    IN  IF ~t.returns
        THEN [g EXCEPT !.board = t.board, !.move_history = t.move_history,
                       !.attempt = g.attempt + 1]
        ELSE LET e == game_play_turn_end(g, t)
             IN  IF ~e.ok
                 THEN [e.g EXCEPT !.pc = "final"]
                 ELSE [e.g EXCEPT !.pc = "loop", !.move_count = g.move_count + 1]

\* play_game after its loop
play_game_final(g) ==
    IF g.winner # None
    THEN [g EXCEPT !.pc = "done",
                   !.game_result = Some(WinsText(g.winner[1]))]
    ELSE IF g.move_count >= g.max_moves
    THEN [g EXCEPT
            !.pc = "done",
            !.result =
                IF g.result.winner = None
                THEN [g.result EXCEPT
                        !.winner = Some("Draw"),
                        !.winner_color = None,
                        !.total_moves = Len(g.moves),
                        !.game_end_reason = Some("Maximum moves reached")]
                ELSE g.result,
            !.game_result = Some("Draw - Maximum moves reached")]
    ELSE [g EXCEPT !.pc = "done",
                   !.game_result = Some("Game ended due to error")]

----------------------------------------------------------------------------
(* gomoku_visualizer.py: the replay of a game record.  The canvas, the       *)
(* buttons and the labels are left out.                                      *)

\* GomokuVisualizer.__init__: self.board_size = 15
board_size == 15

\* returns <<row_idx, col_idx>>; cols.index(col) is 0-based
coord_to_indices(col, row) ==
    LET cols == <<"A", "B", "C", "D", "E", "F", "G", "H", "I", "J", "K", "L",
                  "M", "N", "O">>
        col_idx == (CHOOSE i \in 1..Len(cols) : cols[i] = col) - 1
        row_idx == board_size - row
    IN  <<row_idx, col_idx>>

\* reset_board: board_state
ResetBoardState == [r \in 0..(board_size - 1) |-> [c \in 0..(board_size - 1) |-> "."]]

RECURSIVE ApplyMoves(_, _, _, _)
\* the loop of update_board_to_move over moves[lo], ..., moves[hi] (counted
\* from 1): board_state after it
ApplyMoves(state, game_moves, lo, hi) ==
    IF lo > hi THEN state
    ELSE IF lo = hi
    THEN LET move == game_moves[lo]
             idx == coord_to_indices(move.column, move.row)
         IN  [state EXCEPT ![idx[1]][idx[2]] = move.player]
    ELSE LET mid == (lo + hi) \div 2
             left == ApplyMoves(state, game_moves, lo, mid)
         IN  \* the test has the first half applied before the second is entered
             IF DOMAIN left = {} THEN left
             ELSE ApplyMoves(left, game_moves, mid + 1, hi)

\* board_state after update_board_to_move(move_index) on the record's moves
update_board_to_move(game_moves, move_index) ==
    LET last == IF move_index < Len(game_moves) THEN move_index ELSE Len(game_moves)
    IN  ApplyMoves(ResetBoardState, game_moves, 1, last)

\* The viewer v is the record of game_data, current_move_index, board_state
\* and winning_positions.  GomokuVisualizer.__init__:
NewView ==
    [game_data |-> None,
     current_move_index |-> 0,
     board_state |-> ResetBoardState,
     winning_positions |-> <<>>]

\* the viewer's variables are those of a new viewer and are not used
NoView ==
    /\ game_data = NewView.game_data
    /\ current_move_index = NewView.current_move_index
    /\ board_state = NewView.board_state
    /\ winning_positions = NewView.winning_positions

\* reset_board
reset_board(v) ==
    [v EXCEPT !.board_state = ResetBoardState, !.winning_positions = <<>>]

\* update_board_to_move(move_index) as a whole: the viewer after the call
update_board_to_move_view(v, move_index) ==
    LET v0 == reset_board(v)
    IN  IF v0.game_data = None \/ v0.game_data[1].moves = <<>>
        THEN v0
        ELSE LET game_moves == v0.game_data[1].moves
                 winning_line == v0.game_data[1].result.winning_line
             IN  [v0 EXCEPT
                    !.board_state = update_board_to_move(game_moves, move_index),
                    !.winning_positions =
                        IF move_index = Len(game_moves)
                           /\ winning_line # None /\ winning_line[1] # <<>>
                        THEN [i \in 1..Len(winning_line[1]) |->
                                <<winning_line[1][i].column, winning_line[1][i].row>>]
                        ELSE <<>>,
                    !.current_move_index = move_index]

\* load_game, the file holding the record data
load_game(v, data) ==
    LET v0 == [v EXCEPT !.game_data = Some(data), !.current_move_index = 0]
    IN  update_board_to_move_view(reset_board(v0), 0)

go_to_first(v) == update_board_to_move_view(v, 0)

\* next_move going on without the test of current_move_index
next_move_NoGuard(v) ==
    IF v.game_data # None
    THEN update_board_to_move_view(v, v.current_move_index + 1)
    ELSE v

previous_move(v) ==
    IF v.current_move_index > 0
    THEN update_board_to_move_view(v, v.current_move_index - 1)
    ELSE v

next_move(v) ==
    IF v.game_data # None /\ v.current_move_index < Len(v.game_data[1].moves)
    THEN update_board_to_move_view(v, v.current_move_index + 1)
    ELSE v

go_to_last(v) ==
    IF v.game_data # None
    THEN update_board_to_move_view(v, Len(v.game_data[1].moves))
    ELSE v

----------------------------------------------------------------------------
(* Clients of the board.  A board is built from the empty one by place_stone *)
(* calls only; the positions the runs start from are built that way.        *)

RECURSIVE Replay(_, _, _)
\* the board object after the calls place_stone(*m) for m in calls, in order
Replay(b, h, calls) ==
    IF calls = <<>> THEN [board |-> b, move_history |-> h]
    ELSE LET m == Head(calls)
             r == place_stone(b, h, m[1], m[2], m[3])
         IN  Replay(r.board, r.move_history, Tail(calls))

\* A line through a centre cell is described by the cells at distance 1, 2, ...
\* on its positive side (pos) and on its negative side (neg): "B" a stone of
\* the first colour, "W" a stone of the second colour, "." an empty cell.
CfgEmpty == [pos |-> <<>>, neg |-> <<>>]

CfgFive == [pos |-> <<"B", "B">>, neg |-> <<"B", "B">>]

CfgOver == [pos |-> <<"B", "B", "B">>, neg |-> <<"B", "B">>]

CfgSpecial ==
    { CfgOver,
      [pos |-> <<"B", "B", "B", "B">>, neg |-> <<>>],
      [pos |-> <<>>, neg |-> <<"B", "B", "B", "B">>],
      [pos |-> <<"B", "B", "B", "B", "B">>, neg |-> <<>>],
      [pos |-> <<"B", "B">>, neg |-> <<"B">>],
      [pos |-> <<"B", ".", "B", "B">>, neg |-> <<"B">>],
      [pos |-> <<"B", "B", "W", "B">>, neg |-> <<"B", "W">>],
      [pos |-> <<".", ".", ".", ".", ".", ".", "B">>,
       neg |-> <<".", ".", ".", ".", ".", ".", "B">>] }

\* one description per direction
LineConfigs ==
    [1..Len(directions) -> {CfgEmpty, CfgFive}]
    \cup { [i \in 1..Len(directions) |-> IF i = d THEN c ELSE CfgEmpty] :
             d \in 1..Len(directions), c \in CfgSpecial }

Colour(v, swap) ==
    IF ~swap THEN v ELSE IF v = "B" THEN "W" ELSE "B"

Reach == BOARD_SIZE \div 2

\* the place_stone calls that set up the lines cfg around centre: direction by
\* direction, the positive side before the negative one, nearest cell first
Opening(centre, cfg, swap) ==
    LET idx == _coord_to_indices(centre[1], centre[2])
        Dir(n) == directions[(n \div (2 * Reach)) + 1]
        Positive(n) == (n % (2 * Reach)) < Reach
        Dist(n) == (n % Reach) + 1
        Pattern(n) == IF Positive(n) THEN cfg[(n \div (2 * Reach)) + 1].pos
                      ELSE cfg[(n \div (2 * Reach)) + 1].neg
        Value(n) == IF Dist(n) <= Len(Pattern(n)) THEN Pattern(n)[Dist(n)] ELSE "."
        Sign(n) == IF Positive(n) THEN 1 ELSE -1
        Row(n) == idx[1] + Sign(n) * Dist(n) * Dir(n)[1]
        Col(n) == idx[2] + Sign(n) * Dist(n) * Dir(n)[2]
        Used(n) == Value(n) # "." /\ InBoard(Row(n), Col(n))
        slots == SelectSeq([i \in 1..(Len(directions) * 2 * Reach) |-> i - 1], Used)
    IN  [i \in 1..Len(slots) |->
            <<BOARD_COLUMNS[Col(slots[i]) + 1], BOARD_SIZE - Row(slots[i]),
              Colour(Value(slots[i]), swap)>>]

\* the lines are set up in the first colour around the centre H8 and in the
\* second colour around the corner A1
Openings ==
    { Opening(<<"H", 8>>, cfg, FALSE) : cfg \in LineConfigs }
    \cup { Opening(<<"A", 1>>, cfg, TRUE) : cfg \in LineConfigs }

\* the arguments the clients pass: (col, row, stone) to place_stone, check_win
\* and get_winning_line, (col, row) to is_valid_move and get_stone
PlaceArgs ==
    { <<"H", 8, "B">>, <<"H", 8, "W">>, <<"A", 1, "B">>, <<"A", 1, "W">>,
      <<"H", 8, "X">>, <<"P", 8, "B">>, <<"H", 0, "W">>, <<"H", 16, "B">> }

QueryArgs ==
    { <<"H", 8, "B">>, <<"H", 8, "W">>, <<"A", 1, "B">>, <<"A", 1, "W">>,
      <<"P", 8, "B">>, <<"H", 0, "W">>, <<"H", 16, "B">> }

QueryCoords ==
    { <<"H", 8>>, <<"A", 1>>, <<"P", 8>>, <<"H", 0>>, <<"H", 16>> }

\* the driver's variables are those of a new game and are not used
NoGame ==
    /\ current_player = NewGame.current_player
    /\ game_over = NewGame.game_over
    /\ winner = NewGame.winner
    /\ moves = NewGame.moves
    /\ result = NewGame.result
    /\ pc = NewGame.pc
    /\ move_count = NewGame.move_count
    /\ max_moves = NewGame.max_moves
    /\ attempt = NewGame.attempt
    /\ game_result = NewGame.game_result

Init ==
    /\ \E opening \in Openings :
          LET r == Replay(EmptyBoard, <<>>, opening)
          IN  /\ board = r.board
              /\ move_history = r.move_history
    /\ call = [op |-> "__init__"]
    /\ ret = None
    /\ NoGame
    /\ NoView

PlaceStone(col, row, stone) ==
    LET r == place_stone(board, move_history, col, row, stone)
    IN  /\ board' = r.board
        /\ move_history' = r.move_history
        /\ call' = [op |-> "place_stone", col |-> col, row |-> row, stone |-> stone]
        /\ ret' = r.ok
        /\ UNCHANGED <<gameVars, viewVars>>

IsValidMove(col, row) ==
    /\ call' = [op |-> "is_valid_move", col |-> col, row |-> row]
    /\ ret' = is_valid_move(board, col, row)
    /\ UNCHANGED <<board, move_history>>
    /\ UNCHANGED <<gameVars, viewVars>>

GetStone(col, row) ==
    /\ call' = [op |-> "get_stone", col |-> col, row |-> row]
    /\ ret' = get_stone(board, col, row)
    /\ UNCHANGED <<board, move_history>>
    /\ UNCHANGED <<gameVars, viewVars>>

\* get_last_move written as self.move_history.pop()
GetLastMove_Pop ==
    /\ call' = [op |-> "get_last_move"]
    /\ ret' = get_last_move(move_history)
    /\ move_history' = SubSeq(move_history, 1, Len(move_history) - 1)
    /\ UNCHANGED board
    /\ UNCHANGED <<gameVars, viewVars>>

GetLastMove ==
    /\ call' = [op |-> "get_last_move"]
    /\ ret' = get_last_move(move_history)
    /\ UNCHANGED <<board, move_history>>
    /\ UNCHANGED <<gameVars, viewVars>>

Display ==
    /\ call' = [op |-> "display"]
    /\ ret' = display(board)
    /\ UNCHANGED <<board, move_history>>
    /\ UNCHANGED <<gameVars, viewVars>>

CheckWin(col, row, stone) ==
    /\ call' = [op |-> "check_win", col |-> col, row |-> row, stone |-> stone]
    /\ ret' = check_win(board, col, row, stone)
    /\ UNCHANGED <<board, move_history>>
    /\ UNCHANGED <<gameVars, viewVars>>

GetWinningLine(col, row, stone) ==
    /\ call' = [op |-> "get_winning_line", col |-> col, row |-> row, stone |-> stone]
    /\ ret' = get_winning_line(board, col, row, stone)
    /\ UNCHANGED <<board, move_history>>
    /\ UNCHANGED <<gameVars, viewVars>>

IsBoardFull ==
    /\ call' = [op |-> "is_board_full"]
    /\ ret' = is_board_full(board)
    /\ UNCHANGED <<board, move_history>>
    /\ UNCHANGED <<gameVars, viewVars>>

Next ==
    \/ \E a \in PlaceArgs : PlaceStone(a[1], a[2], a[3])
    \/ \E p \in QueryCoords : IsValidMove(p[1], p[2])
    \/ \E p \in QueryCoords : GetStone(p[1], p[2])
    \/ GetLastMove
    \/ Display
    \/ \E a \in QueryArgs : CheckWin(a[1], a[2], a[3])
    \/ \E a \in QueryArgs : GetWinningLine(a[1], a[2], a[3])
    \/ IsBoardFull

Spec == Init /\ [][Next]_vars

----------------------------------------------------------------------------
(* A client that lets one owner fill five adjacent cells of a line in any    *)
(* order, check_win being asked about the stone placed last, while the       *)
(* opponent places stones off the line.                                      *)

\* one line of five cells per direction: horizontal on the bottom edge,
\* vertical on the right edge, diagonal-down through the centre, diagonal-up
Lines ==
    << << <<"A", 1>>, <<"B", 1>>, <<"C", 1>>, <<"D", 1>>, <<"E", 1>> >>,
       << <<"O", 15>>, <<"O", 14>>, <<"O", 13>>, <<"O", 12>>, <<"O", 11>> >>,
       << <<"F", 10>>, <<"G", 9>>, <<"H", 8>>, <<"I", 7>>, <<"J", 6>> >>,
       << <<"M", 12>>, <<"L", 11>>, <<"K", 10>>, <<"J", 9>>, <<"I", 8>> >> >>

LineCells(l) == {Lines[l][i] : i \in 1..Len(Lines[l])}

\* the owner who fills the line
LineOwner(l) == IF l % 2 = 1 THEN "B" ELSE "W"

\* where the opponent plays meanwhile: the cell that continues the line at
\* one end, and a cell beside the middle of the line
OpponentCells ==
    << {<<"F", 1>>, <<"C", 2>>},
       {<<"O", 10>>, <<"N", 12>>},
       {<<"K", 5>>, <<"H", 9>>},
       {<<"N", 13>>, <<"K", 11>>} >>

StoneAt(cell) ==
    LET idx == _coord_to_indices(cell[1], cell[2])
    IN  board[idx[1]][idx[2]]

\* the stones on the board belong to the scenario of the line l
OnlyLine(l) ==
    \A k \in 1..Len(Lines) :
        k # l => \A cell \in LineCells(k) \cup OpponentCells[k] : StoneAt(cell) = "."

InitLine ==
    /\ board = EmptyBoard
    /\ move_history = <<>>
    /\ call = [op |-> "__init__"]
    /\ ret = None
    /\ NoGame
    /\ NoView

\* the owner of the line l places on its i-th cell, which is empty
OwnerPlaces(l, i) ==
    /\ OnlyLine(l)
    /\ StoneAt(Lines[l][i]) = "."
    /\ PlaceStone(Lines[l][i][1], Lines[l][i][2], LineOwner(l))

\* the opponent places on an empty cell off the line l
OpponentPlaces(l, cell) ==
    /\ OnlyLine(l)
    /\ StoneAt(cell) = "."
    /\ PlaceStone(cell[1], cell[2], IF LineOwner(l) = "B" THEN "W" ELSE "B")

\* check_win for the stone placed last
CheckLast ==
    /\ move_history # <<>>
    /\ LET last == move_history[Len(move_history)]
       IN  CheckWin(last[1], last[2], last[3])

NextLine ==
    \/ \E l \in 1..Len(Lines), i \in 1..5 : OwnerPlaces(l, i)
    \/ \E l \in 1..Len(Lines) : \E cell \in OpponentCells[l] : OpponentPlaces(l, cell)
    \/ CheckLast

SpecLine == InitLine /\ [][NextLine]_vars

----------------------------------------------------------------------------
(* One run of play_game.  The run is followed from the call of play_game or   *)
(* from a position that play_game has reached after accepted moves.           *)

\* the game as the record of the variables
Game ==
    [board |-> board, move_history |-> move_history,
     current_player |-> current_player, game_over |-> game_over,
     winner |-> winner, moves |-> moves, result |-> result, pc |-> pc,
     move_count |-> move_count, max_moves |-> max_moves, attempt |-> attempt,
     game_result |-> game_result]

GameIs(g) ==
    /\ board = g.board
    /\ move_history = g.move_history
    /\ current_player = g.current_player
    /\ game_over = g.game_over
    /\ winner = g.winner
    /\ moves = g.moves
    /\ result = g.result
    /\ pc = g.pc
    /\ move_count = g.move_count
    /\ max_moves = g.max_moves
    /\ attempt = g.attempt
    /\ game_result = g.game_result

GameBecomes(g) ==
    /\ board' = g.board
    /\ move_history' = g.move_history
    /\ current_player' = g.current_player
    /\ game_over' = g.game_over
    /\ winner' = g.winner
    /\ moves' = g.moves
    /\ result' = g.result
    /\ pc' = g.pc
    /\ move_count' = g.move_count
    /\ max_moves' = g.max_moves
    /\ attempt' = g.attempt
    /\ game_result' = g.game_result

\* play_game continued from g over one turn in which get_move returns the
\* coordinate m at once; a game that has left its loop stays as it is
PlayMove(g, m) ==
    LET g1 == IF g.pc = "loop" THEN play_game_loop(g) ELSE g
    IN  IF g1.pc # "turn" THEN g1
        ELSE play_game_attempt(g1, Move(m[1], m[2]))

RECURSIVE PlayRange(_, _, _, _)
\* PlayMove for ms[lo], ..., ms[hi] in turn
PlayRange(g, ms, lo, hi) ==
    IF lo > hi THEN g
    ELSE IF lo = hi THEN PlayMove(g, ms[lo])
    ELSE LET mid == (lo + hi) \div 2
             left == PlayRange(g, ms, lo, mid)
         IN  IF left.pc \in {"final", "done"} THEN left
             ELSE PlayRange(left, ms, mid + 1, hi)

\* play_game continued from g while get_move returns the coordinates ms in turn
PlayOut(g, ms) == PlayRange(g, ms, 1, Len(ms))

\* Black and White have four in a row each
FourEach ==
    << <<"F", 8>>, <<"F", 9>>, <<"G", 8>>, <<"G", 9>>,
       <<"H", 8>>, <<"H", 9>>, <<"I", 8>>, <<"I", 9>> >>

\* a colouring of the whole board without five in a row: rows of BBWW, each
\* shifted by two against the row above
DrawColour(r, c) == IF ((c + 2 * r) % 4) < 2 THEN "B" ELSE "W"

\* the cells of the board row by row, from the top row down
AllCells ==
    [n \in 1..(BOARD_SIZE * BOARD_SIZE) |->
        <<BOARD_COLUMNS[((n - 1) % BOARD_SIZE) + 1], BOARD_SIZE - ((n - 1) \div BOARD_SIZE)>>]

\* the cells that DrawColour gives to colour, without the cell skip
CellsOfColour(colour, skip) ==
    LET Wanted(cell) ==
            /\ cell # skip
            /\ LET idx == _coord_to_indices(cell[1], cell[2])
               IN  DrawColour(idx[1], idx[2]) = colour
    IN  SelectSeq(AllCells, Wanted)

\* every cell but H8 is filled, and no one has five in a row
NearlyFull ==
    LET bs == CellsOfColour("B", <<"H", 8>>)
        ws == CellsOfColour("W", <<"H", 8>>)
    IN  [i \in 1..(Len(bs) + Len(ws)) |->
            IF i % 2 = 1 THEN bs[(i + 1) \div 2] ELSE ws[i \div 2]]

\* DrawColour changed in four cells: D8..H8 is the only five in a row, Black's
FiveColour(r, c) ==
    IF <<r, c>> \in {<<7, 4>>, <<7, 5>>} THEN "B"
    ELSE IF <<r, c>> \in {<<7, 2>>, <<0, 0>>} THEN "W"
    ELSE DrawColour(r, c)

\* the cells that FiveColour gives to colour, without the cell skip
CellsOfFiveColour(colour, skip) ==
    LET Wanted(cell) ==
            /\ cell # skip
            /\ LET idx == _coord_to_indices(cell[1], cell[2])
               IN  FiveColour(idx[1], idx[2]) = colour
    IN  SelectSeq(AllCells, Wanted)

\* every cell but H8 is filled, no one has five in a row, and Black's stone on
\* H8 would complete D8..H8
NearlyFullFive ==
    LET bs == CellsOfFiveColour("B", <<"H", 8>>)
        ws == CellsOfFiveColour("W", <<"H", 8>>)
    IN  [i \in 1..(Len(bs) + Len(ws)) |->
            IF i % 2 = 1 THEN bs[(i + 1) \div 2] ELSE ws[i \div 2]]

Positions == {FourEach, NearlyFull, NearlyFullFive}

SmallMaxMoves == 2

\* the values of max_moves passed to play_game
MaxMovesArgs == {0, SmallMaxMoves, DefaultMaxMoves, DefaultMaxMoves + 1}

\* what get_move returns
GameMoves ==
    { NoMove, Move("J", 8), Move("J", 9), Move("A", 1), Move("H", 8),
      Move("P", 8), Move("H", 16), BadRowMove("H") }

InitGame ==
    /\ \/ GameIs(NewGame)
       \/ \E m \in MaxMovesArgs, ms \in Positions :
             GameIs(PlayOut(play_game_start(NewGame, m), ms))
    /\ call = [op |-> "__init__"]
    /\ ret = None
    /\ NoView

Start(m) ==
    /\ pc = "idle"
    /\ GameBecomes(play_game_start(Game, m))
    /\ UNCHANGED viewVars
    /\ UNCHANGED <<call, ret>>

LoopEnter ==
    /\ pc = "loop"
    /\ play_game_loop_test(Game)
    /\ GameBecomes(play_game_loop(Game))
    /\ UNCHANGED viewVars
    /\ UNCHANGED <<call, ret>>

LoopExit ==
    /\ pc = "loop"
    /\ ~play_game_loop_test(Game)
    /\ GameBecomes(play_game_loop(Game))
    /\ UNCHANGED viewVars
    /\ UNCHANGED <<call, ret>>

Attempt(move) ==
    /\ pc = "turn"
    /\ GameBecomes(play_game_attempt(Game, move))
    /\ UNCHANGED viewVars
    /\ call' = [op |-> "get_move"]
    /\ ret' = move

Final ==
    /\ pc = "final"
    /\ GameBecomes(play_game_final(Game))
    /\ UNCHANGED viewVars
    /\ UNCHANGED <<call, ret>>

NextGame ==
    \/ \E m \in MaxMovesArgs : Start(m)
    \/ LoopEnter
    \/ LoopExit
    \/ \E move \in GameMoves : Attempt(move)
    \/ Final

SpecGame == InitGame /\ [][NextGame]_vars

\* play_game has a next step to take as long as it has not returned: this is
\* ENABLED <<NextGame>>_vars
Running == pc # "done"

\* play_game runs on: the interpreter takes the next step of the program, and
\* every call of get_move returns.  This is WF_vars(NextGame), written with
\* Running for ENABLED <<NextGame>>_vars.
SpecGameLive ==
    InitGame /\ [][NextGame]_vars /\ ([]<>~Running \/ []<><<NextGame>>_vars)

----------------------------------------------------------------------------
(* The replay viewer: games saved by play_game are loaded and stepped        *)
(* through with the first / previous / next / last commands.                 *)

\* the record of the game g as save_game_record writes it: check_game_end
\* stores the cells of the winning line as {"column", "row", "coordinate"}
SavedRecord(g) ==
    [moves |-> g.moves,
     result |->
        [g.result EXCEPT
           !.winning_line =
               IF g.result.winning_line = None THEN None
               ELSE LET line == g.result.winning_line[1]
                    IN  Some([i \in 1..Len(line) |->
                                [column |-> line[i][1], row |-> line[i][2]]])]]

\* play_game(max_moves=0): no move is played
UnplayedGame ==
    play_game_final(play_game_loop(play_game_start(NewGame, 0)))

\* Black wins with J8 after FourEach
WonGame ==
    play_game_final(
        play_game_loop(
            PlayOut(play_game_start(NewGame, DefaultMaxMoves),
                    FourEach \o << <<"J", 8>> >>)))

\* the board is filled without five in a row
DrawnGame ==
    play_game_final(
        play_game_loop(
            PlayOut(play_game_start(NewGame, DefaultMaxMoves),
                    NearlyFull \o << <<"H", 8>> >>)))

\* Black wins with the stone that fills the board
FullWonGame ==
    play_game_final(
        play_game_loop(
            PlayOut(play_game_start(NewGame, DefaultMaxMoves),
                    NearlyFullFive \o << <<"H", 8>> >>)))

\* the files the viewer can load
GameRecords ==
    { SavedRecord(UnplayedGame), SavedRecord(WonGame), SavedRecord(DrawnGame),
      SavedRecord(FullWonGame) }

\* the viewer as the record of the variables
View ==
    [game_data |-> game_data, current_move_index |-> current_move_index,
     board_state |-> board_state, winning_positions |-> winning_positions]

ViewBecomes(v) ==
    /\ game_data' = v.game_data
    /\ current_move_index' = v.current_move_index
    /\ board_state' = v.board_state
    /\ winning_positions' = v.winning_positions

InitView ==
    /\ board = EmptyBoard
    /\ move_history = <<>>
    /\ call = [op |-> "__init__"]
    /\ ret = None
    /\ NoGame
    /\ NoView

LoadGame(data) ==
    /\ ViewBecomes(load_game(View, data))
    /\ call' = [op |-> "load_game"]
    /\ UNCHANGED <<board, move_history, ret, gameVars>>

GoToFirst ==
    /\ ViewBecomes(go_to_first(View))
    /\ call' = [op |-> "go_to_first"]
    /\ UNCHANGED <<board, move_history, ret, gameVars>>

PreviousMove ==
    /\ ViewBecomes(previous_move(View))
    /\ call' = [op |-> "previous_move"]
    /\ UNCHANGED <<board, move_history, ret, gameVars>>

NextMove ==
    /\ ViewBecomes(next_move(View))
    /\ call' = [op |-> "next_move"]
    /\ UNCHANGED <<board, move_history, ret, gameVars>>

GoToLast ==
    /\ ViewBecomes(go_to_last(View))
    /\ call' = [op |-> "go_to_last"]
    /\ UNCHANGED <<board, move_history, ret, gameVars>>

NextView ==
    \/ \E data \in GameRecords : LoadGame(data)
    \/ GoToFirst
    \/ PreviousMove
    \/ NextMove
    \/ GoToLast

SpecViewer == InitView /\ [][NextView]_vars

----------------------------------------------------------------------------
(* Properties.  Cells are named here by column number 1..15 (A = 1) and row *)
(* number 1..15, and lines by their step <<column step, row step>>.         *)

ColNo(col) == CHOOSE i \in 1..Len(BOARD_COLUMNS) : BOARD_COLUMNS[i] = col

OnBoard(colno, row) ==
    colno \in 1..BOARD_SIZE /\ row \in 1..BOARD_SIZE

\* the cell (colno, row) is on the board and holds o
Holds(b, colno, row, o) ==
    OnBoard(colno, row) /\ b[BOARD_SIZE - row][colno - 1] = o

\* horizontal, vertical, diagonal-down, diagonal-up, each by the step of its
\* positive direction: columns grow to the right, row numbers grow upwards
Orientations == << <<1, 0>>, <<0, -1>>, <<1, -1>>, <<-1, -1>> >>

\* the number of contiguous cells holding o next to (colno, row) on the side v
RunLen(b, colno, row, v, o) ==
    CHOOSE k \in 0..BOARD_SIZE :
        /\ \A j \in 1..k : Holds(b, colno + j * v[1], row + j * v[2], o)
        /\ ~Holds(b, colno + (k + 1) * v[1], row + (k + 1) * v[2], o)

Neg(v) == <<-v[1], -v[2]>>

\* the length of the maximal run of o through (colno, row) along v, the cell included
MaxRun(b, colno, row, v, o) ==
    1 + RunLen(b, colno, row, v, o) + RunLen(b, colno, row, Neg(v), o)

HasFive(b, colno, row, o) ==
    \E i \in 1..Len(Orientations) : MaxRun(b, colno, row, Orientations[i], o) >= 5

ValidCoord(col, row) ==
    col \in {BOARD_COLUMNS[i] : i \in 1..Len(BOARD_COLUMNS)} /\ row \in 1..BOARD_SIZE

\* the call is op(col, row, stone) on a valid cell that holds stone
CallOnOwnStone(op) ==
    /\ call.op = op
    /\ ValidCoord(call.col, call.row)
    /\ Holds(board, ColNo(call.col), call.row, call.stone)

\* C1: for a cell that holds the owner's stone, check_win is true exactly when
\* the maximal run of that owner through the cell has length >= 5 in one of
\* the four directions; stones beyond a gap or an opponent stone do not count.
C1_CheckWinIffRunOfFive ==
    /\ \A colno \in 1..BOARD_SIZE, row \in 1..BOARD_SIZE :
          LET o == board[BOARD_SIZE - row][colno - 1]
          IN  o # "." =>
                (check_win(board, BOARD_COLUMNS[colno], row, o)
                    <=> HasFive(board, colno, row, o))
    /\ CallOnOwnStone("check_win") =>
          (ret <=> HasFive(board, ColNo(call.col), call.row, call.stone))

\* check_win answered true for the stone placed last
C1_Witness ==
    /\ CallOnOwnStone("check_win")
    /\ move_history # <<>>
    /\ move_history[Len(move_history)] = <<call.col, call.row, call.stone>>
    /\ ret = TRUE

\* C2: a cell that holds a stone keeps that stone in every step.
C2_CellsNeverChangeOnceSet ==
    [][board' # board =>
          \A r \in 0..(BOARD_SIZE - 1), c \in 0..(BOARD_SIZE - 1) :
              board[r][c] # "." => board'[r][c] = board[r][c]]_vars

\* place_stone was called with the other colour on an occupied cell
C2_Witness ==
    /\ call.op = "place_stone"
    /\ ValidCoord(call.col, call.row)
    /\ call.stone \in {"B", "W"}
    /\ ~Holds(board, ColNo(call.col), call.row, ".")
    /\ ~Holds(board, ColNo(call.col), call.row, call.stone)

\* C3: place_stone on an out-of-range coordinate or on an occupied cell returns
\* failure and leaves the grid and the move log as they were.
C3_RejectedPlacementChangesNothing ==
    [][(/\ call'.op = "place_stone"
        /\ \/ ~ValidCoord(call'.col, call'.row)
           \/ ~Holds(board, ColNo(call'.col), call'.row, "."))
       => (ret' = FALSE /\ board' = board /\ move_history' = move_history)]_vars

\* a placement on an occupied cell and one out of range have been rejected
C3_Witness ==
    /\ call.op = "place_stone"
    /\ ret = FALSE
    /\ move_history # <<>>
    /\ \/ ~ValidCoord(call.col, call.row)
       \/ ~Holds(board, ColNo(call.col), call.row, ".")

StoneCells ==
    { <<colno, row>> \in (1..BOARD_SIZE) \X (1..BOARD_SIZE) :
        ~Holds(board, colno, row, ".") }

\* C4: the number of non-empty cells equals the length of the move log, and the
\* log records name pairwise distinct cells that hold the recorded owner.
C4_StonesMatchLog ==
    /\ Cardinality(StoneCells) = Len(move_history)
    /\ \A i \in 1..Len(move_history) :
          /\ ValidCoord(move_history[i][1], move_history[i][2])
          /\ Holds(board, ColNo(move_history[i][1]), move_history[i][2],
                   move_history[i][3])
          /\ \A j \in 1..Len(move_history) :
                (move_history[j][1] = move_history[i][1]
                   /\ move_history[j][2] = move_history[i][2]) => j = i

\* stones of both colours are on the board after accepted and rejected placements
C4_Witness ==
    /\ call.op = "place_stone"
    /\ ret = FALSE
    /\ \E i, j \in 1..Len(move_history) :
          move_history[i][3] = "B" /\ move_history[j][3] = "W"

IsPrefix(s, t) ==
    Len(s) <= Len(t) /\ \A i \in 1..Len(s) : s[i] = t[i]

\* C5: the move log only grows at its end: every step keeps the old log as a
\* prefix, an accepted place_stone appends exactly its (column, row, owner)
\* and a rejected one appends nothing.
C5_LogAppendOnly ==
    [][/\ IsPrefix(move_history, move_history')
       /\ call'.op = "place_stone" =>
            IF ret'
            THEN move_history' =
                   Append(move_history, <<call'.col, call'.row, call'.stone>>)
            ELSE move_history' = move_history]_vars

\* place_stone accepted a stone on a board that already held stones
C5_Witness ==
    /\ call.op = "place_stone"
    /\ ret = TRUE
    /\ Len(move_history) >= 2
    /\ move_history[Len(move_history)] = <<call.col, call.row, call.stone>>

Coord(colno, row) == <<BOARD_COLUMNS[colno], row>>

\* the placed cell, then the run on the positive side of v by increasing
\* distance, then the run on the negative side, cut after five cells
ExpectedLine(b, colno, row, v, o) ==
    LET p == RunLen(b, colno, row, v, o)
    IN  [k \in 1..5 |->
            IF k = 1 THEN Coord(colno, row)
            ELSE IF k - 1 <= p
                 THEN Coord(colno + (k - 1) * v[1], row + (k - 1) * v[2])
                 ELSE Coord(colno - (k - 1 - p) * v[1], row - (k - 1 - p) * v[2])]

\* C6: for a winning move get_winning_line returns exactly five coordinates:
\* the placed cell, then the owner's run on the positive side of the reported
\* direction by increasing distance, then the run on the negative side, cut
\* after the fifth cell.
C6_WinningLineOrderAndTruncation ==
    (CallOnOwnStone("get_winning_line")
       /\ HasFive(board, ColNo(call.col), call.row, call.stone))
    => /\ ret # None
       /\ Len(ret[1]) = 5
       /\ \E i \in 1..Len(Orientations) :
             /\ MaxRun(board, ColNo(call.col), call.row, Orientations[i], call.stone) >= 5
             /\ ret[1] = ExpectedLine(board, ColNo(call.col), call.row,
                                      Orientations[i], call.stone)

\* the line of a run of six or more with stones on both sides of the placed cell
C6_Witness ==
    /\ CallOnOwnStone("get_winning_line")
    /\ ret # None
    /\ \E i \in 1..Len(Orientations) :
          /\ MaxRun(board, ColNo(call.col), call.row, Orientations[i], call.stone) >= 6
          /\ RunLen(board, ColNo(call.col), call.row, Orientations[i], call.stone) \in 1..3
          /\ ret[1] = ExpectedLine(board, ColNo(call.col), call.row,
                                   Orientations[i], call.stone)

\* the orientations along which the owner has a run of five or more through the cell
WinningOrientations(b, colno, row, o) ==
    { i \in 1..Len(Orientations) : MaxRun(b, colno, row, Orientations[i], o) >= 5 }

\* every cell of line is on the line through its first cell with step v
Along(line, v) ==
    \A k \in 1..Len(line) :
        \E t \in (0 - BOARD_SIZE)..BOARD_SIZE :
            /\ ColNo(line[k][1]) = ColNo(line[1][1]) + t * v[1]
            /\ line[k][2] = line[1][2] + t * v[2]

\* C7: when the placed stone has runs of five or more in several directions,
\* get_winning_line reports a line of the first of them in the order
\* horizontal, vertical, diagonal-down, diagonal-up, and of no later one.
C7_FirstDirectionReported ==
    (CallOnOwnStone("get_winning_line")
       /\ Cardinality(WinningOrientations(board, ColNo(call.col), call.row,
                                          call.stone)) >= 2)
    => LET W == WinningOrientations(board, ColNo(call.col), call.row, call.stone)
           first == CHOOSE i \in W : \A j \in W : i <= j
       IN  /\ ret # None
           /\ Along(ret[1], Orientations[first])
           /\ \A j \in W : j # first => ~Along(ret[1], Orientations[j])

\* two or more directions win and the horizontal one is not among them
C7_Witness ==
    /\ CallOnOwnStone("get_winning_line")
    /\ ret # None
    /\ LET W == WinningOrientations(board, ColNo(call.col), call.row, call.stone)
       IN  Cardinality(W) >= 2 /\ 1 \notin W

\* the arguments on which the two functions are compared in a state
ProbeArgs ==
    PlaceArgs \cup QueryArgs
    \cup { <<move_history[i][1], move_history[i][2], s>> :
             i \in 1..Len(move_history), s \in {"B", "W", ".", "X"} }

\* C8: get_winning_line returns a line exactly when check_win returns true for
\* the same board, coordinate and owner.  A board and its log are first reached
\* by __init__ or place_stone, where the two are compared on all ProbeArgs; the
\* answer of every get_winning_line call is compared where it is given.
C8_WinningLineIffCheckWin ==
    /\ call.op \in {"__init__", "place_stone"} =>
          \A a \in ProbeArgs :
              (get_winning_line(board, a[1], a[2], a[3]) # None)
                 <=> check_win(board, a[1], a[2], a[3])
    /\ call.op = "get_winning_line" =>
          ((ret # None) <=> check_win(board, call.col, call.row, call.stone))

\* get_winning_line returned a line where check_win is true
C8_Witness ==
    /\ call.op = "get_winning_line"
    /\ ret # None
    /\ check_win(board, call.col, call.row, call.stone)

\* C9: the line returned for a just-placed stone has five pairwise distinct
\* valid coordinates, all held by the owner, one of them the placed cell, and
\* they are five consecutive cells of one of the four directions.
C9_WinningLineIsSegmentOfOwner ==
    (CallOnOwnStone("get_winning_line") /\ ret # None)
    => LET line == ret[1]
       IN  /\ Len(line) = 5
           /\ \A i, j \in 1..Len(line) : line[i] = line[j] => i = j
           /\ \A i \in 1..Len(line) :
                 /\ ValidCoord(line[i][1], line[i][2])
                 /\ Holds(board, ColNo(line[i][1]), line[i][2], call.stone)
           /\ \E i \in 1..Len(line) : line[i] = <<call.col, call.row>>
           /\ \E v \in {Orientations[i] : i \in 1..Len(Orientations)} :
                 \E c0 \in 1..BOARD_SIZE, r0 \in 1..BOARD_SIZE :
                     {<<ColNo(line[i][1]), line[i][2]>> : i \in 1..Len(line)}
                        = {<<c0 + j * v[1], r0 + j * v[2]>> : j \in 0..4}

\* a line was returned for the stone placed last
C9_Witness ==
    /\ CallOnOwnStone("get_winning_line")
    /\ ret # None
    /\ move_history # <<>>
    /\ move_history[Len(move_history)] = <<call.col, call.row, call.stone>>
    /\ Len(ret[1]) = 5

\* C10: once game_over is set, play_game asks for no further move, no stone is
\* placed or recorded, and the winner and the recorded result stay as they are.
C10_GameOverIsTerminal ==
    [][game_over =>
         /\ game_over'
         /\ pc' # "turn"
         /\ board' = board
         /\ move_history' = move_history
         /\ moves' = moves
         /\ winner' = winner
         /\ result' = result]_vars

\* play_game has returned after a five in a row while cells were still empty
\* and max_moves was not reached
C10_Witness ==
    /\ pc = "done"
    /\ game_over
    /\ result.winning_line # None
    /\ move_count < max_moves
    /\ ~is_board_full(board)

\* get_move has returned a (column, row) that the board rejects: the column is
\* not one of A-O, the row is not in 1..15, or the cell holds a stone
Rejected(b, move) ==
    /\ move.kind = "coords"
    /\ \/ ~ValidCoord(move.col, move.row)
       \/ ~Holds(b, ColNo(move.col), move.row, ".")

\* C11: a rejected move that is not the last attempt of the turn changes
\* nothing in the session (grid, move log, recorded moves, player to move,
\* game_over, winner, result, move count) and the same player is asked again.
C11_RejectedMoveChangesNothing ==
    [][(/\ pc = "turn"
        /\ attempt < max_retries
        /\ call'.op = "get_move"
        /\ Rejected(board, ret'))
       => /\ board' = board
          /\ move_history' = move_history
          /\ moves' = moves
          /\ current_player' = current_player
          /\ game_over' = game_over
          /\ winner' = winner
          /\ result' = result
          /\ move_count' = move_count
          /\ pc' = "turn"
          /\ attempt' = attempt + 1]_vars

\* the player is asked again after an out-of-range coordinate has been
\* rejected on a retry, in a game with stones on the board
C11_Witness ==
    /\ pc = "turn"
    /\ attempt >= 2
    /\ call.op = "get_move"
    /\ Rejected(board, ret)
    /\ ~ValidCoord(ret.col, ret.row)
    /\ move_history # <<>>
    /\ ~game_over

\* every cell of b holds a stone
AllCellsTaken(b) ==
    \A colno \in 1..BOARD_SIZE, row \in 1..BOARD_SIZE : ~Holds(b, colno, row, ".")

\* C12: when a move is accepted, the game is won by the player who made it
\* exactly when the stone completes a run of five or more of that player, also
\* when it fills the board; it is a draw without a winner when the stone fills
\* the board without completing such a run; otherwise the game goes on.
C12_FullBoardDrawUnlessFive ==
    [][(pc = "turn" /\ move_history' # move_history)
       => LET last == move_history'[Len(move_history')]
              o == last[3]
              five == HasFive(board', ColNo(last[1]), last[2], o)
              full == AllCellsTaken(board')
          IN  /\ o = current_player
              /\ five =>
                    /\ game_over'
                    /\ winner' = Some(o)
                    /\ result'.winner = Some(ColorName(o))
                    /\ result'.winner_color = Some(o)
              /\ (~five /\ full) =>
                    /\ game_over'
                    /\ winner' = None
                    /\ result'.winner = Some("Draw")
                    /\ result'.winner_color = None
                    /\ result'.winning_line = None
              /\ (~five /\ ~full) =>
                    /\ ~game_over'
                    /\ winner' = None
                    /\ result'.winner = None]_vars

\* the last empty cell has been filled without a five in a row and the game
\* is over as a draw
C12_Witness ==
    /\ AllCellsTaken(board)
    /\ Len(move_history) = BOARD_SIZE * BOARD_SIZE
    /\ LET last == move_history[Len(move_history)]
       IN  ~HasFive(board, ColNo(last[1]), last[2], last[3])
    /\ game_over
    /\ winner = None
    /\ result.winner = Some("Draw")

Opponent(stone) == IF stone = "B" THEN "W" ELSE "B"

\* C13 as claimed: a turn whose last allowed attempt ends without an accepted
\* move ends the game as a forfeit won by the opponent, the board unchanged
\* (stated for what get_move returns within its declared type).
C13_ExhaustedBudgetIsForfeit ==
    [][(/\ pc = "turn"
        /\ attempt = max_retries
        /\ call'.op = "get_move"
        /\ ret'.kind # "badrow"
        /\ move_history' = move_history)
       => /\ game_over'
          /\ winner' = Some(Opponent(current_player))
          /\ board' = board]_vars

\* C13 as amended: when the last allowed attempt is a move that the board
\* rejects, the game ends as a forfeit won by the opponent; when it yields no
\* move, the game ends as an error without a winner; no attempt of a turn that
\* ends without an accepted move changes the grid or the move log.
C13_RejectedLastAttemptIsForfeit ==
    [][/\ (/\ pc = "turn"
           /\ attempt = max_retries
           /\ call'.op = "get_move"
           /\ Rejected(board, ret'))
          => /\ game_over'
             /\ winner' = Some(Opponent(current_player))
             /\ result'.winner = Some(ColorName(Opponent(current_player)))
             /\ result'.winner_color = Some(Opponent(current_player))
             /\ board' = board
             /\ move_history' = move_history
             /\ moves' = moves
             /\ pc' # "turn"
       /\ (/\ pc = "turn"
           /\ attempt = max_retries
           /\ call'.op = "get_move"
           /\ ret'.kind = "none")
          => /\ game_over'
             /\ winner' = None
             /\ result'.winner = Some("Error")
             /\ result'.winner_color = None
             /\ board' = board
             /\ move_history' = move_history
             /\ moves' = moves
             /\ pc' # "turn"
       /\ (pc = "turn" /\ moves' = moves)
          => (board' = board /\ move_history' = move_history)]_vars

\* the fourth attempt of a turn was rejected and the opponent has won by forfeit
C13_Witness ==
    /\ attempt = max_retries
    /\ call.op = "get_move"
    /\ Rejected(board, ret)
    /\ game_over
    /\ winner = Some(Opponent(current_player))
    /\ result.game_end_reason = Some("forfeited")
    /\ move_history # <<>>

AllLineCells == UNION {LineCells(l) : l \in 1..Len(Lines)}

\* the cells of the lines that hold a stone
TakenLineCells ==
    { cell \in AllLineCells : ~Holds(board, ColNo(cell[1]), cell[2], ".") }

\* C14: while one owner fills five adjacent cells of a line in any order and
\* the opponent plays off the line, check_win for the stone placed last is
\* false as long as the owner has four stones or fewer and true with the fifth.
C14_FifthStoneWins ==
    /\ move_history # <<>> =>
          LET last == move_history[Len(move_history)]
          IN  check_win(board, last[1], last[2], last[3])
                 <=> (<<last[1], last[2]>> \in AllLineCells
                        /\ Cardinality(TakenLineCells) = 5)
    /\ call.op = "check_win" =>
          (ret <=> (<<call.col, call.row>> \in AllLineCells
                      /\ Cardinality(TakenLineCells) = 5))

\* check_win answered true for a fifth stone placed in the middle of its line,
\* the opponent having played in between
C14_Witness ==
    /\ call.op = "check_win"
    /\ ret = TRUE
    /\ Len(move_history) > 5
    /\ \E l \in 1..Len(Lines) :
          move_history[Len(move_history)] = <<Lines[l][3][1], Lines[l][3][2], call.stone>>
    /\ move_history[Len(move_history) - 1][3] # call.stone

\* C15: is_board_full is true exactly when no cell is empty, which is exactly
\* when the move log holds size * size records; with fewer records it is false.
C15_BoardFullIffAllCellsTaken ==
    /\ is_board_full(board) <=> AllCellsTaken(board)
    /\ is_board_full(board) <=> (Len(move_history) = BOARD_SIZE * BOARD_SIZE)
    /\ Len(move_history) < BOARD_SIZE * BOARD_SIZE => ~is_board_full(board)
    /\ Len(move_history) <= BOARD_SIZE * BOARD_SIZE

\* the board has been filled by the last move of a game
C15_Witness ==
    /\ is_board_full(board)
    /\ Len(move_history) = BOARD_SIZE * BOARD_SIZE
    /\ call.op = "get_move"
    /\ ret.kind = "coords"
    /\ <<ret.col, ret.row>> = <<"H", 8>>
    /\ game_over

\* C16: is_valid_move fails with the out-of-bounds reason when the column is
\* not one of A-O or the row is outside 1..15, fails with the occupied reason
\* when the coordinate is in range and the cell holds a stone, and succeeds
\* exactly when the coordinate is in range and the cell is empty; the two
\* reasons differ, from each other and from the empty reason of a success.
C16_IsValidMoveReasons ==
    /\ MsgInvalidCoordinates # MsgOccupied
    /\ call.op = "is_valid_move" =>
          IF ~ValidCoord(call.col, call.row)
          THEN ret = [ok |-> FALSE, msg |-> MsgInvalidCoordinates]
          ELSE IF ~Holds(board, ColNo(call.col), call.row, ".")
          THEN ret = [ok |-> FALSE, msg |-> MsgOccupied]
          ELSE ret = [ok |-> TRUE, msg |-> ""]

\* is_valid_move failed on an occupied cell
C16_Witness ==
    /\ call.op = "is_valid_move"
    /\ ValidCoord(call.col, call.row)
    /\ ~Holds(board, ColNo(call.col), call.row, ".")
    /\ ret.ok = FALSE
    /\ ret.msg = MsgOccupied

\* C17: place_stone with a stone other than 'B' and 'W' on a valid empty cell
\* returns False, prints the reason "Invalid stone type", which is neither of
\* the reasons of is_valid_move, and leaves the grid and the move log as they
\* were.
C17_UnknownStoneIsRejected ==
    [][(/\ call'.op = "place_stone"
        /\ call'.stone \notin {"B", "W"}
        /\ ValidCoord(call'.col, call'.row)
        /\ Holds(board, ColNo(call'.col), call'.row, "."))
       => /\ ret' = FALSE
          /\ board' = board
          /\ move_history' = move_history
          /\ LET r == place_stone(board, move_history, call'.col, call'.row,
                                  call'.stone)
             IN  /\ r.ok = FALSE
                 /\ r.printed = MsgInvalidStone
                 /\ r.printed \notin {MsgInvalidCoordinates, MsgOccupied, ""}]_vars

\* a stone 'X' was refused on an empty cell of a board with stones
C17_Witness ==
    /\ call.op = "place_stone"
    /\ call.stone = "X"
    /\ ValidCoord(call.col, call.row)
    /\ Holds(board, ColNo(call.col), call.row, ".")
    /\ ret = FALSE
    /\ move_history # <<>>

\* the coordinates get_stone is compared on: every cell and the out-of-range ones
GetCoords ==
    {Coord(colno, row) : colno \in 1..BOARD_SIZE, row \in 1..BOARD_SIZE}
    \cup QueryCoords

\* C18: after a successful place_stone(column, row, owner), get_stone(column,
\* row) returns owner, and get_stone of every other coordinate returns what it
\* returned before.
C18_PlaceThenGet ==
    [][(call'.op = "place_stone" /\ ret' = TRUE)
       => /\ get_stone(board', call'.col, call'.row) = Some(call'.stone)
          /\ get_stone(board, call'.col, call'.row) = None
          /\ \A p \in GetCoords :
                p # <<call'.col, call'.row>>
                   => get_stone(board', p[1], p[2]) = get_stone(board, p[1], p[2])]_vars

\* a stone was placed in the corner A1 of a board with stones of both colours
C18_Witness ==
    /\ call.op = "place_stone"
    /\ ret = TRUE
    /\ <<call.col, call.row>> = <<"A", 1>>
    /\ get_stone(board, "A", 1) = Some(call.stone)
    /\ \E i, j \in 1..Len(move_history) :
          move_history[i][3] = "B" /\ move_history[j][3] = "W"

\* C19 as claimed: what get_stone returns for an in-range empty cell differs
\* from what it returns for an out-of-range coordinate.
C19_EmptyDiffersFromOutOfRange ==
    (/\ call.op = "get_stone"
     /\ ValidCoord(call.col, call.row)
     /\ Holds(board, ColNo(call.col), call.row, "."))
    => \A q \in QueryCoords :
          ~ValidCoord(q[1], q[2]) => ret # get_stone(board, q[1], q[2])

\* C19 as amended: get_stone returns the owner for an in-range cell that holds
\* a stone, and None both for an in-range empty cell and for an out-of-range
\* coordinate; only an occupied cell is told apart.
C19_GetStoneNoneUnlessOccupied ==
    call.op = "get_stone" =>
        IF ValidCoord(call.col, call.row)
           /\ ~Holds(board, ColNo(call.col), call.row, ".")
        THEN /\ ret # None
             /\ Holds(board, ColNo(call.col), call.row, ret[1])
        ELSE ret = None

\* get_stone returned None for an empty cell of a board with stones
C19_Witness ==
    /\ call.op = "get_stone"
    /\ ValidCoord(call.col, call.row)
    /\ Holds(board, ColNo(call.col), call.row, ".")
    /\ ret = None
    /\ move_history # <<>>

\* C20: get_last_move returns None while no stone is on the board and the
\* (column, row, owner) of the most recent successful placement afterwards: a
\* successful place_stone makes its arguments the last move, and a failed one
\* and every query leave the last move as it was.
C20_LastMoveIsLatestPlacement ==
    [][/\ call'.op = "place_stone" =>
            get_last_move(move_history') =
                IF ret' THEN Some(<<call'.col, call'.row, call'.stone>>)
                ELSE get_last_move(move_history)
       /\ call'.op # "place_stone" =>
            get_last_move(move_history') = get_last_move(move_history)
       /\ call'.op = "get_last_move" =>
            /\ ret' = get_last_move(move_history)
            /\ (ret' = None) <=> (StoneCells = {})
            /\ ret' # None =>
                  /\ Len(ret'[1]) = 3
                  /\ Holds(board, ColNo(ret'[1][1]), ret'[1][2], ret'[1][3])]_vars

\* get_last_move returned the stone placed last, after a failed placement
C20_Witness ==
    /\ call.op = "get_last_move"
    /\ ret # None
    /\ Len(move_history) >= 2
    /\ ret[1] = move_history[Len(move_history)]
    /\ ret[1] # move_history[1]

\* C21: every operation other than place_stone (is_valid_move, get_stone,
\* get_last_move, display, check_win, get_winning_line, is_board_full) leaves
\* the grid and the move log as they were, whatever its arguments.
C21_ReadsChangeNothing ==
    [][call'.op # "place_stone"
         => (board' = board /\ move_history' = move_history)]_vars

\* a read operation was called with an out-of-range coordinate on a board with
\* stones
C21_Witness ==
    /\ call.op \in {"is_valid_move", "get_stone", "check_win", "get_winning_line"}
    /\ ~ValidCoord(call.col, call.row)
    /\ Len(move_history) >= 2

\* coordinates with a column that is not one of A-O or a row outside 1..15
OutOfBounds ==
    ({"P", "a", "h", "", "AA", "1"} \X ((0 - 1)..(BOARD_SIZE + 2)))
    \cup ({BOARD_COLUMNS[i] : i \in 1..Len(BOARD_COLUMNS)}
             \X {0 - BOARD_SIZE, 0 - 1, 0, BOARD_SIZE + 1, BOARD_SIZE + 2, 2 * BOARD_SIZE})

\* C22: check_win is false for every out-of-bounds coordinate and every owner
\* on every reachable board; its evaluation reads no cell of the grid.
C22_CheckWinFailsClosed ==
    /\ \A p \in OutOfBounds, o \in {"B", "W", ".", "X"} :
          check_win(board, p[1], p[2], o) = FALSE
    /\ (call.op = "check_win" /\ ~ValidCoord(call.col, call.row)) => ret = FALSE

\* check_win was asked about an out-of-range coordinate on a board with a five
\* in a row
C22_Witness ==
    /\ call.op = "check_win"
    /\ ~ValidCoord(call.col, call.row)
    /\ ret = FALSE
    /\ \E colno \in 1..BOARD_SIZE, row \in 1..BOARD_SIZE :
          HasFive(board, colno, row, call.stone)
             /\ Holds(board, colno, row, call.stone)

RECURSIVE ReplayRange(_, _, _, _)
\* place_stone(*recs[i]) for i = lo, ..., hi in turn on the board object s;
\* ok tells whether every call so far has succeeded
ReplayRange(s, recs, lo, hi) ==
    IF lo > hi THEN s
    ELSE IF lo = hi
    THEN LET r == place_stone(s.board, s.move_history, recs[lo][1], recs[lo][2],
                              recs[lo][3])
         IN  [ok |-> s.ok /\ r.ok, board |-> r.board, move_history |-> r.move_history]
    ELSE LET mid == (lo + hi) \div 2
             left == ReplayRange(s, recs, lo, mid)
         IN  IF ~left.ok THEN left
             ELSE ReplayRange(left, recs, mid + 1, hi)

\* the first k records of the log applied to an empty board
Rebuild(recs, k) ==
    ReplayRange([ok |-> TRUE, board |-> EmptyBoard, move_history |-> <<>>], recs, 1, k)

\* the log replayed in full gives the grid and the log; the viewer at the last
\* index shows the grid; for every k up to the log length the viewer at index
\* k shows the grid rebuilt from the first k records (compared for all k while
\* the log has at most BOARD_SIZE records and when play_game has returned)
C23_State ==
    /\ Rebuild(move_history, Len(move_history))
          = [ok |-> TRUE, board |-> board, move_history |-> move_history]
    /\ Len(moves) = Len(move_history)
    /\ update_board_to_move(moves, Len(moves)) = board
    /\ (Len(move_history) <= BOARD_SIZE \/ pc = "done") =>
          \A k \in 0..Len(move_history) :
              /\ Rebuild(move_history, k).ok
              /\ update_board_to_move(moves, k) = Rebuild(move_history, k).board

\* the log and the recorded moves grow at their end by one record at a time,
\* and the viewer at the index before the new move shows the grid as it was
C23_Step ==
    /\ IsPrefix(move_history, move_history')
    /\ Len(move_history') <= Len(move_history) + 1
    /\ IsPrefix(moves, moves')
    /\ Len(moves') > Len(moves) =>
          /\ update_board_to_move(moves', Len(moves)) = board
          /\ Rebuild(move_history', Len(move_history)).board = board

\* C23: in every state the grid is what the log's records give when applied in
\* order to an empty board, each application succeeding; as the log only grows
\* at its end, its first k records give the grid that existed after the k-th
\* accepted move, and the replay viewer at move index k shows that grid.
C23_LogRebuildsPosition ==
    []C23_State /\ [][C23_Step]_vars

\* a move has been accepted on a board with eight stones or more and the
\* viewer at the last index shows the grid
C23_Witness ==
    /\ call.op = "get_move"
    /\ ret.kind = "coords"
    /\ Len(move_history) > 8
    /\ Len(move_history) <= BOARD_SIZE
    /\ move_history[Len(move_history)][1] = ret.col
    /\ move_history[Len(move_history)][2] = ret.row
    /\ update_board_to_move(moves, Len(moves)) = board
    /\ update_board_to_move(moves, Len(moves) - 1) # board

\* the number of records of owner o in the log h
CountOf(h, o) == Cardinality({i \in 1..Len(h) : h[i][3] = o})

\* C24: Black moves first and the owners in the move log alternate B, W, B, ...,
\* so Black has as many stones as White or one more; the player to move changes
\* in exactly the steps that accept a move without ending the game, and while
\* the game goes on it is the player whose turn it is by the log's length.
C24_PlayersAlternate ==
    /\ [](/\ \A i \in 1..Len(move_history) :
                move_history[i][3] = IF i % 2 = 1 THEN "B" ELSE "W"
          /\ CountOf(move_history, "B") - CountOf(move_history, "W") \in {0, 1}
          /\ ~game_over =>
                current_player = IF Len(move_history) % 2 = 0 THEN "B" ELSE "W")
    /\ [][(current_player' # current_player)
            <=> (Len(move_history') = Len(move_history) + 1 /\ ~game_over')]_vars

\* White has answered Black's move and it is Black's turn again
C24_Witness ==
    /\ pc = "turn"
    /\ ~game_over
    /\ current_player = "B"
    /\ Len(move_history) >= 2
    /\ Len(move_history) <= BOARD_SIZE
    /\ call.op = "get_move"
    /\ move_history[Len(move_history)] = <<ret.col, ret.row, "W">>

\* C25: for every valid (column, row), _coord_to_indices gives
\* (size - row, position of the column letter), both in 0..size-1; cols[col_idx]
\* and size - row_idx give the coordinate back, and so does _collect_line for
\* every cell that holds a stone; distinct coordinates have distinct indices.
C25_CoordinateRoundTrip ==
    /\ \A colno \in 1..BOARD_SIZE, row \in 1..BOARD_SIZE :
          LET col == BOARD_COLUMNS[colno]
              idx == _coord_to_indices(col, row)
          IN  /\ idx = <<BOARD_SIZE - row, colno - 1>>
              /\ idx[1] \in 0..(BOARD_SIZE - 1)
              /\ idx[2] \in 0..(BOARD_SIZE - 1)
              /\ <<BOARD_COLUMNS[idx[2] + 1], BOARD_SIZE - idx[1]>> = <<col, row>>
              /\ board[idx[1]][idx[2]] # "." =>
                    CollectFrom(board, idx[1], idx[2], 0, 1, board[idx[1]][idx[2]])[1]
                       = <<col, row>>
    /\ Cardinality({ _coord_to_indices(BOARD_COLUMNS[colno], row) :
                       colno \in 1..BOARD_SIZE, row \in 1..BOARD_SIZE })
          = BOARD_SIZE * BOARD_SIZE

\* every cell holds a stone, and the winning line that _collect_line has
\* converted back from indices names cells of the winner
C25_Witness ==
    /\ AllCellsTaken(board)
    /\ winner # None
    /\ result.winning_line # None
    /\ \A i \in 1..Len(result.winning_line[1]) :
          Holds(board, ColNo(result.winning_line[1][i][1]),
                result.winning_line[1][i][2], winner[1])

\* the number that the first two characters of a line show
LabelValue(line) ==
    LET Value(ch) == CHOOSE n \in 0..9 : Digit(n) = ch
    IN  (IF line[1] = " " THEN 0 ELSE 10 * Value(line[1])) + Value(line[2])

\* how a cell is shown: the owner that get_stone reports, or the placeholder
Marker(b, col, row) ==
    IF get_stone(b, col, row) = None THEN "." ELSE get_stone(b, col, row)[1]

\* C26: display() returns size + 1 lines; line i, counted from 0, is labelled
\* with the row number size - i and shows, in the column order A..O, for each
\* cell of that row the owner that get_stone reports or '.', and the last
\* line lists the column letters in that order.
C26_DisplayRowsTopDown ==
    call.op = "display" =>
        /\ Len(ret) = BOARD_SIZE + 1
        /\ \A i \in 0..(BOARD_SIZE - 1) :
              LET line == ret[i + 1]
              IN  /\ Len(line) = 2 + 2 * BOARD_SIZE
                  /\ LabelValue(line) = BOARD_SIZE - i
                  /\ \A colno \in 1..BOARD_SIZE :
                        /\ line[2 + 2 * colno]
                              = Marker(board, BOARD_COLUMNS[colno], BOARD_SIZE - i)
                        /\ line[1 + 2 * colno] = " "
        /\ LET header == ret[BOARD_SIZE + 1]
           IN  /\ Len(header) = 2 + 2 * BOARD_SIZE
               /\ \A colno \in 1..BOARD_SIZE :
                     /\ header[2 + 2 * colno] = BOARD_COLUMNS[colno]
                     /\ header[1 + 2 * colno] = " "
               /\ header[1] = " " /\ header[2] = " "

\* the board was displayed with a stone in the corner A1, shown at the start
\* of the last row line, and with stones of both colours
C26_Witness ==
    /\ call.op = "display"
    /\ ret[BOARD_SIZE][4] \in {"B", "W"}
    /\ get_stone(board, "A", 1) = Some(ret[BOARD_SIZE][4])
    /\ \E i, j \in 1..Len(move_history) :
          move_history[i][3] = "B" /\ move_history[j][3] = "W"

\* C28: while game_over is false in a game driven by play_game, no cell of the
\* board lies on a run of five or more cells of its owner, in any direction.
C28_NoFiveWhileGameGoesOn ==
    ~game_over =>
        \A colno \in 1..BOARD_SIZE, row \in 1..BOARD_SIZE :
            LET o == board[BOARD_SIZE - row][colno - 1]
            IN  o # "." => ~HasFive(board, colno, row, o)

\* the game goes on after an accepted move while Black and White have four in
\* a row each
C28_Witness ==
    /\ ~game_over
    /\ call.op = "get_move"
    /\ ret.kind = "coords"
    /\ move_history # <<>>
    /\ move_history[Len(move_history)][1] = ret.col
    /\ move_history[Len(move_history)][2] = ret.row
    /\ \A o \in {"B", "W"} :
          \E colno \in 1..BOARD_SIZE, row \in 1..BOARD_SIZE :
              /\ Holds(board, colno, row, o)
              /\ MaxRun(board, colno, row, Orientations[1], o) = 4

\* C29 as claimed: check_win is true for a valid coordinate only if the cell
\* holds the owner and lies on a run of five or more of that owner.
C29_CheckWinImpliesOwnedRun ==
    (/\ call.op = "check_win"
     /\ ValidCoord(call.col, call.row)
     /\ ret = TRUE)
    => /\ Holds(board, ColNo(call.col), call.row, call.stone)
       /\ HasFive(board, ColNo(call.col), call.row, call.stone)

\* the owner's cells next to (colno, row) on the two sides of one direction
\* number four or more
FourAround(b, colno, row, o) ==
    \E i \in 1..Len(Orientations) :
        RunLen(b, colno, row, Orientations[i], o)
           + RunLen(b, colno, row, Neg(Orientations[i]), o) >= 4

\* C29 as amended: for every valid coordinate and owner, check_win is true
\* exactly when the owner's cells adjoining the coordinate on the two sides of
\* one direction number four or more, the cell itself not being read; hence
\* check_win = true implies a run of five or more of the owner through the
\* cell whenever the cell holds that owner.  A board is first reached by
\* __init__ or by a place_stone that returned True: its cells are enumerated
\* there, and the answers of the check_win calls are compared wherever they
\* are given.
C29_CheckWinCountsNeighbours ==
    /\ (call.op = "__init__" \/ (call.op = "place_stone" /\ ret = TRUE)) =>
          \A colno \in 1..BOARD_SIZE, row \in 1..BOARD_SIZE, o \in {"B", "W"} :
              LET won == check_win(board, BOARD_COLUMNS[colno], row, o)
              IN  /\ won <=> FourAround(board, colno, row, o)
                  /\ (won /\ Holds(board, colno, row, o))
                        => \E i \in 1..Len(Orientations) :
                              \E start \in 0..4 :
                                  \A j \in 0..4 :
                                      Holds(board,
                                            colno + (j - start) * Orientations[i][1],
                                            row + (j - start) * Orientations[i][2],
                                            o)
    /\ (call.op = "check_win" /\ ValidCoord(call.col, call.row)) =>
          (ret <=> FourAround(board, ColNo(call.col), call.row, call.stone))

\* check_win answered true for an empty cell between the owner's stones
C29_Witness ==
    /\ call.op = "check_win"
    /\ ValidCoord(call.col, call.row)
    /\ ret = TRUE
    /\ Holds(board, ColNo(call.col), call.row, ".")
    /\ call.stone \in {"B", "W"}

\* C30: when play_game has returned, its string and the recorded result agree
\* on the kind of outcome: "<colour> wins!" goes with that colour recorded as
\* winner, a board filled with no winner goes with a draw string and "Draw"
\* recorded, and "Game ended due to error" only with "Error" recorded.
C30_ResultStringAgreesWithRecord ==
    pc = "done" =>
        /\ \A stone \in {"B", "W"} :
              game_result = Some(WinsText(stone))
                  => /\ winner = Some(stone)
                     /\ result.winner = Some(ColorName(stone))
        /\ (winner = None /\ AllCellsTaken(board))
              => /\ game_result = Some("Draw - Maximum moves reached")
                 /\ result.winner = Some("Draw")
        /\ game_result = Some("Game ended due to error")
              => result.winner = Some("Error")

\* C31: in every attempt of a turn, the player's colour is "B" or "W" and a
\* coordinate that is_valid_move accepts is placed by place_stone in the same
\* step: validate_and_execute_move never answers "Failed to place stone", and
\* the log grows by exactly that coordinate with the player's colour.
C31_ValidMoveIsPlaced ==
    [][(call'.op = "get_move" /\ pc = "turn" /\ ret'.kind = "coords") =>
          LET v == validate_and_execute_move(board, move_history,
                                             current_player, ret')
          IN  /\ current_player \in {"B", "W"}
              /\ v.message # MsgFailedToPlace
              /\ is_valid_move(board, ret'.col, ret'.row).ok
                    => /\ v.success
                       /\ move_history' =
                             Append(move_history,
                                    <<ret'.col, ret'.row, current_player>>)
                       /\ get_stone(board', ret'.col, ret'.row)
                             = Some(current_player)]_vars

\* an attempt of White's has placed the stone that get_move returned
C31_Witness ==
    /\ call.op = "get_move"
    /\ ret.kind = "coords"
    /\ move_history # <<>>
    /\ move_history[Len(move_history)] = <<ret.col, ret.row, "W">>
    /\ moves # <<>>
    /\ moves[Len(moves)].player = "W"

\* C32: when the game has ended by five in a row, the recorded winner is the
\* owner of the last record of the move log, and the recorded winning line is
\* present and names five different cells, all held by that owner, one of
\* them the cell of the last record.
C32_WinnerIsLastMover ==
    result.game_end_reason = Some("achieved 5 in a row") =>
        /\ game_over
        /\ move_history # <<>>
        /\ LET last == move_history[Len(move_history)]
               o == last[3]
           IN  /\ winner = Some(o)
               /\ result.winner_color = Some(o)
               /\ result.winner = Some(ColorName(o))
               /\ result.winning_line # None
               /\ LET line == result.winning_line[1]
                  IN  /\ Len(line) = 5
                      /\ Cardinality({line[i] : i \in 1..Len(line)}) = 5
                      /\ \A i \in 1..Len(line) :
                            /\ ValidCoord(line[i][1], line[i][2])
                            /\ Holds(board, ColNo(line[i][1]), line[i][2], o)
                      /\ \E i \in 1..Len(line) :
                            line[i] = <<last[1], last[2]>>

\* White has won by five in a row
C32_Witness ==
    /\ result.game_end_reason = Some("achieved 5 in a row")
    /\ result.winner_color = Some("W")
    /\ move_history # <<>>
    /\ move_history[Len(move_history)][3] = "W"

\* the number of cells of b that hold a stone
StoneCount(b) ==
    Cardinality({rc \in (0..(BOARD_SIZE - 1)) \X (0..(BOARD_SIZE - 1)) :
                    b[rc[1]][rc[2]] # "."})

\* C33: the recorded move list mirrors the move log of the board: the two have
\* the same length, the i-th recorded move has move_number i and the column,
\* row and owner of the i-th log record, and once a result has been written
\* its total_moves is the number of stones on the board.
C33_RecordMirrorsLog ==
    /\ Len(moves) = Len(move_history)
    /\ \A i \in 1..Len(moves) :
          moves[i] = [move_number |-> i, player |-> move_history[i][3],
                      column |-> move_history[i][1], row |-> move_history[i][2]]
    /\ result.game_end_reason # None =>
          /\ result.total_moves = Len(moves)
          /\ result.total_moves = StoneCount(board)

\* a game that went on from eight stones has ended by forfeit with a result
\* that counts more than eight moves
C33_Witness ==
    /\ result.game_end_reason = Some("forfeited")
    /\ Len(moves) > 8
    /\ result.total_moves = Len(moves)

\* a turn is going on with at most max_retries attempts behind it
C34_State ==
    pc = "turn" => attempt \in 0..max_retries

\* one attempt of a turn: what LLMPlayer.play_turn does with the move that
\* get_move has returned
C34_Step ==
    (call'.op = "get_move" /\ pc = "turn") =>
        LET t == llm_play_turn_attempt(board, move_history, current_player,
                                       attempt, ret')
            placed == move_history' # move_history
        IN  /\ Len(move_history') <= Len(move_history) + 1
            /\ t.success <=> placed
            /\ placed =>
                  /\ t.returns
                  /\ pc' # "turn"
                  /\ t.move_coords
                        = Some(<<move_history'[Len(move_history')][1],
                                 move_history'[Len(move_history')][2]>>)
                  /\ get_stone(board', t.move_coords[1][1], t.move_coords[1][2])
                        = Some(current_player)
                  /\ moves' # moves
            /\ ~placed =>
                  /\ board' = board
                  /\ moves' = moves
                  /\ t.move_coords = None
                  /\ IF attempt = max_retries \/ ret'.kind = "badrow"
                     THEN pc' # "turn" /\ game_over'
                     ELSE pc' = "turn" /\ attempt' = attempt + 1 /\ ~game_over'

\* C34: in one call of LLMPlayer.play_turn, get_move is called at most
\* max_retries + 1 times, at most one stone is placed, the call returns success
\* with the stone's coordinate exactly when a stone was placed, and the first
\* accepted move ends the turn.
C34_OneStonePerTurn ==
    []C34_State /\ [][C34_Step]_vars

\* the last attempt of a turn has placed a stone, which ended the game
C34_Witness ==
    /\ call.op = "get_move"
    /\ ret.kind = "coords"
    /\ attempt = max_retries
    /\ pc # "turn"
    /\ move_history # <<>>
    /\ move_history[Len(move_history)] = <<ret.col, ret.row, current_player>>

\* the counters of play_game and of the retry loop stay within their limits,
\* and a game played with the default max_moves is over when play_game returns
C35_Bounds ==
    /\ attempt \in 0..max_retries
    /\ pc # "idle" =>
          /\ move_count >= 0
          /\ max_moves >= 0 => move_count <= max_moves
          /\ Len(moves) <= move_count
    /\ Len(moves) <= BOARD_SIZE * BOARD_SIZE
    /\ (pc = "done" /\ max_moves = DefaultMaxMoves) =>
          /\ game_over
          /\ result.winner # None
          /\ Len(moves) <= DefaultMaxMoves

\* C35: as every call of get_move returns, play_game returns: it runs at most
\* max_moves turns, a turn has at most max_retries + 1 attempts, and with
\* max_moves = 225 the game is over after at most 225 accepted moves.
C35_PlayGameTerminates ==
    []C35_Bounds /\ <>(pc = "done")

\* play_game has returned after the 225th accepted move of a game played with
\* the default max_moves
C35_Witness ==
    /\ pc = "done"
    /\ max_moves = DefaultMaxMoves
    /\ move_count = DefaultMaxMoves
    /\ Len(moves) = DefaultMaxMoves

\* the number of cells of the viewer's board that hold a stone
ShownStones ==
    Cardinality({rc \in (0..(board_size - 1)) \X (0..(board_size - 1)) :
                    board_state[rc[1]][rc[2]] # "."})

\* C36: with a game loaded, after any sequence of first / previous / next /
\* last commands the current move index is within 0..number of recorded moves
\* and the board shows exactly the moves up to it; next followed by previous,
\* where next is possible, gives the same board again; and the winning line
\* is highlighted only at the index that equals the number of recorded moves.
C36_ViewerNavigation ==
    game_data # None =>
        LET game_moves == game_data[1].moves
            n == Len(game_moves)
        IN  /\ current_move_index \in 0..n
            /\ ShownStones = current_move_index
            /\ \A i \in 1..n :
                  i <= current_move_index =>
                      LET idx == _coord_to_indices(game_moves[i].column,
                                                   game_moves[i].row)
                      IN  board_state[idx[1]][idx[2]] = game_moves[i].player
            /\ current_move_index < n =>
                  /\ next_move(View).current_move_index = current_move_index + 1
                  /\ previous_move(next_move(View)) = View
            /\ winning_positions # <<>> =>
                  /\ current_move_index = n
                  /\ game_data[1].result.winning_line # None
                  /\ \A i \in 1..Len(winning_positions) :
                        LET idx == _coord_to_indices(winning_positions[i][1],
                                                     winning_positions[i][2])
                        IN  board_state[idx[1]][idx[2]]
                              = game_data[1].result.winner_color[1]

\* previous was pressed at the end of a won game: the last stone and the
\* highlight of the winning line are gone
C36_Witness ==
    /\ game_data # None
    /\ call.op = "previous_move"
    /\ game_data[1].result.winning_line # None
    /\ current_move_index = Len(game_data[1].moves) - 1
    /\ current_move_index > 0
    /\ winning_positions = <<>>

====
